---- MODULE Spec2Model ----
(***************************************************************************)
(* Verification model of the tabular ingestion pipeline                    *)
(* (src/pipeline) and of the upload service that drives it                 *)
(* (src/backend/services/data_processor.py).                               *)
(*                                                                         *)
(* Representation.                                                         *)
(*   - a Python str is a sequence of one-character strings, so that        *)
(*     endswith / contains / isdigit / int() / str() are computed;         *)
(*   - a column label is [k, v] with k in {"str","int","float"}; a float   *)
(*     label holds its value in tenths (20240 is 2024.0);                  *)
(*   - a cell is [k, v] with k in {"null","int","str","ts"};               *)
(*   - a DataFrame is [cols, rows]; cols is a sequence of [name, dtype]    *)
(*     and rows a sequence of runs [cells, n]: the row `cells` repeated    *)
(*     n times, so that sheets beyond the chunking threshold exist;        *)
(*   - a ratio (a pandas mean or a confidence) is [num, den]; den = 0 is   *)
(*     NaN, and every comparison with NaN is false.                        *)
(***************************************************************************)
EXTENDS Integers, Sequences, FiniteSets, TLC

VARIABLES
    pc,         \* position of the operation under analysis
    table,      \* TypeInferencer / layout: the DataFrame given to the function
    info,       \* TypeInferencer.infer: [raised, info], the returned mapping
    layoutInfo, \* identify_metric_period: the returned LayoutInfo
    longDf,     \* to_long: [raised, df, action]
    lists,      \* the heap of Python lists of AuditEntry, addressed by position
    now,        \* the value datetime.utcnow() returns
    logger,     \* AuditLogger._entries: the address of the logger's list
    trails,     \* the AuditTrail objects handed out by to_trail
    file,       \* the uploaded file: kind, size in bytes, sheets
    run,        \* the current call of a Pipeline entry point
    svc,        \* the upload service: results, processing errors, outcome
    conf,       \* the configuration given to the step under analysis
    cleaned,    \* clean_dataframe: [raised, df, logs]
    profiled,   \* profile_dataframe: [raised, profile, logs]
    engine,     \* what the external profiling engine does when it is called
    reruns,     \* the outcomes of the runs of the pipeline on one input
    session,    \* SessionManager.sessions[session_id]: the dict of the session
    reply       \* what the last call on the session returned

fnVars == <<table, info, layoutInfo, longDf>>
auditVars == <<lists, now, logger, trails>>
sessVars == <<session, reply>>
svcVars == <<file, run, svc, sessVars>>
stepVars == <<conf, cleaned, profiled, engine, reruns>>
vars == <<pc, fnVars, auditVars, svcVars, stepVars>>

----------------------------------------------------------------------------
(* Bounds of the model                                                     *)

MaxRows == 3
MaxLayoutRows == 2
MaxEntries == 2
MaxTrails == 2
MaxClock == 2
MaxSheets == 2

----------------------------------------------------------------------------
(* Python str helpers                                                      *)

DigitChars == <<"0", "1", "2", "3", "4", "5", "6", "7", "8", "9">>

IsDigitChar(c) == \E i \in 1..10 : DigitChars[i] = c

DigitVal(c) == (CHOOSE i \in 1..10 : DigitChars[i] = c) - 1

\* str.isdigit(): non-empty and every character a digit
IsDigitStr(s) == Len(s) > 0 /\ \A i \in 1..Len(s) : IsDigitChar(s[i])

RECURSIVE StrToNat(_)
\* int(s) for a digit string
StrToNat(s) ==
    IF Len(s) = 0 THEN 0
    ELSE 10 * StrToNat(SubSeq(s, 1, Len(s) - 1)) + DigitVal(s[Len(s)])

RECURSIVE NatToStr(_)
\* str(n) for n >= 0
NatToStr(n) ==
    IF n < 10 THEN <<DigitChars[n + 1]>>
    ELSE NatToStr(n \div 10) \o <<DigitChars[(n % 10) + 1]>>

\* str(n) for an int
IntToStr(n) == IF n < 0 THEN <<"-">> \o NatToStr(0 - n) ELSE NatToStr(n)

RECURSIVE LStrip(_)
LStrip(s) == IF Len(s) > 0 /\ s[1] = " " THEN LStrip(Tail(s)) ELSE s

RECURSIVE RStrip(_)
RStrip(s) ==
    IF Len(s) > 0 /\ s[Len(s)] = " " THEN RStrip(SubSeq(s, 1, Len(s) - 1)) ELSE s

\* str.strip()
Strip(s) == RStrip(LStrip(s))

\* str.endswith(c) for a one-character suffix
EndsWith(s, c) == Len(s) > 0 /\ s[Len(s)] = c

\* re.search of a character class
ContainsAny(s, chars) == \E i \in 1..Len(s) : s[i] \in chars


----------------------------------------------------------------------------
(* Ratios: a pandas mean, a count divided by len(series), or a confidence   *)

Ratio(a, b) == [num |-> a, den |-> b]

IsNaN(r) == r.den = 0

\* r > a/b ; a comparison with NaN is False
RatioGT(r, a, b) == r.den > 0 /\ r.num * b > a * r.den

RECURSIVE SumTo(_, _)
SumTo(f, i) == IF i = 0 THEN 0 ELSE f[i] + SumTo(f, i - 1)

\* sum of a sequence of numbers
Sum(f) == SumTo(f, Len(f))

----------------------------------------------------------------------------
(* Column labels, cells and DataFrames                                     *)

FloatScale == 10

StrLabel(s) == [k |-> "str", v |-> s]
IntLabel(n) == [k |-> "int", v |-> n]
FloatLabel(t) == [k |-> "float", v |-> t]

\* str(col)
LabelStr(col) ==
    CASE col.k = "str" -> col.v
      [] col.k = "int" -> IntToStr(col.v)
      [] col.k = "float" ->
            IntToStr(col.v \div FloatScale) \o <<".">> \o NatToStr(col.v % FloatScale)

NullCell == [k |-> "null", v |-> <<>>]
IntCell(n) == [k |-> "int", v |-> <<n>>]
StrCell(s) == [k |-> "str", v |-> s]
\* a pandas Timestamp: <<"ns", n>> is n nanoseconds after the epoch,
\* <<"ymd", y, m, d>> a calendar date
TsCell(t) == [k |-> "ts", v |-> t]

IsNull(c) == c.k = "null"
IntOf(c) == c.v[1]

PyArrowDtypes ==
    {"int64[pyarrow]", "double[pyarrow]", "string[pyarrow]", "null[pyarrow]"}

\* one element of series.astype(str)
AsStr(c, dtype) ==
    CASE c.k = "str" -> c.v
      [] c.k = "int" ->
            IF dtype = "float64" THEN IntToStr(IntOf(c)) \o <<".", "0">>
            ELSE IntToStr(IntOf(c))
      [] c.k = "null" ->
            IF dtype \in PyArrowDtypes THEN <<"<", "N", "A", ">">>
            ELSE <<"n", "a", "n">>

\* len(df)
NRows(df) == Sum([i \in 1..Len(df.rows) |-> df.rows[i].n])

NCols(df) == Len(df.cols)

\* df.columns
Columns(df) == [j \in 1..Len(df.cols) |-> df.cols[j].name]

\* positions of the columns carrying a label (df[col] selects them all)
Positions(df, col) == {j \in 1..Len(df.cols) : df.cols[j].name = col}

\* the Series at position j: runs [v, n]
SeriesAt(df, j) ==
    [i \in 1..Len(df.rows) |-> [v |-> df.rows[i].cells[j], n |-> df.rows[i].n]]

\* len(series)
SLen(series) == Sum([i \in 1..Len(series) |-> series[i].n])

\* mask.sum() for a boolean mask over the runs of a series
MaskSum(series, mask) ==
    Sum([i \in 1..Len(series) |-> IF mask[i] THEN series[i].n ELSE 0])

\* mask.mean(): NaN on an empty series
MaskMean(series, mask) == Ratio(MaskSum(series, mask), SLen(series))

\* series.nunique(): distinct non-null values
NUnique(series) ==
    Cardinality({series[i].v : i \in {x \in 1..Len(series) : ~IsNull(series[x].v)}})

----------------------------------------------------------------------------
(* pandas conversions, element by element                                  *)

\* the parser accepts ISO dates and bare years inside the Timestamp range
MinTsYear == 1678
MaxTsYear == 2261

IsIsoDate(s) ==
    /\ Len(s) = 10
    /\ s[5] = "-" /\ s[8] = "-"
    /\ IsDigitStr(SubSeq(s, 1, 4)) /\ IsDigitStr(SubSeq(s, 6, 7)) /\ IsDigitStr(SubSeq(s, 9, 10))
    /\ StrToNat(SubSeq(s, 1, 4)) \in MinTsYear..MaxTsYear
    /\ StrToNat(SubSeq(s, 6, 7)) \in 1..12
    /\ StrToNat(SubSeq(s, 9, 10)) \in 1..31

IsYearStr(s) == Len(s) = 4 /\ IsDigitStr(s) /\ StrToNat(s) \in MinTsYear..MaxTsYear

\* one element of pd.to_datetime(series, errors="coerce"); integers are
\* nanoseconds since the epoch, an unparseable value is NaT
ToDatetime(c) ==
    CASE c.k = "null" -> NullCell
      [] c.k = "ts" -> c
      [] c.k = "int" -> TsCell(<<"ns", IntOf(c)>>)
      [] c.k = "str" ->
            IF IsIsoDate(c.v)
            THEN TsCell(<<"ymd", StrToNat(SubSeq(c.v, 1, 4)),
                          StrToNat(SubSeq(c.v, 6, 7)), StrToNat(SubSeq(c.v, 9, 10))>>)
            ELSE IF IsYearStr(c.v) THEN TsCell(<<"ymd", StrToNat(c.v), 1, 1>>)
            ELSE NullCell

\* a float that is not shown as an int, as a reduced fraction
FloatCell(num, den) == [k |-> "float", v |-> <<num, den>>]

RECURSIVE GCD(_, _)
GCD(a, b) == IF b = 0 THEN a ELSE GCD(b, a % b)

Abs(n) == IF n < 0 THEN 0 - n ELSE n

\* the number num/den (den > 0) as a cell
Num(num, den) ==
    LET g == GCD(Abs(num), den)
    IN  IF g = den THEN IntCell(num \div den) ELSE FloatCell(num \div g, den \div g)

\* a numeric cell as <<numerator, denominator>>
NumOf(c) == IF c.k = "int" THEN <<IntOf(c), 1>> ELSE c.v

NumLE(a, b) == a[1] * b[2] <= b[1] * a[2]

NumAdd(a, b) == <<a[1] * b[2] + b[1] * a[2], a[2] * b[2]>>

\* an integer literal: an optional minus sign and digits
IsIntStr(s) ==
    \/ IsDigitStr(s)
    \/ Len(s) > 1 /\ s[1] = "-" /\ IsDigitStr(Tail(s))

\* a decimal literal: an integer literal, a point and digits
IsDecimalStr(s) ==
    \E d \in 2..(Len(s) - 1) :
        s[d] = "." /\ IsIntStr(SubSeq(s, 1, d - 1)) /\ IsDigitStr(SubSeq(s, d + 1, Len(s)))

\* a number literal
IsNumberStr(s) == IsIntStr(s) \/ IsDecimalStr(s)

\* int(s) for an integer literal
NumberOfStr(s) == IF s[1] = "-" THEN 0 - StrToNat(Tail(s)) ELSE StrToNat(s)

RECURSIVE Pow10(_)
Pow10(n) == IF n = 0 THEN 1 ELSE 10 * Pow10(n - 1)

\* the number a literal denotes: an int for an integer literal, a float for
\* a decimal literal
NumberCell(s) ==
    IF IsIntStr(s) THEN IntCell(NumberOfStr(s))
    ELSE LET d == CHOOSE d \in 2..(Len(s) - 1) : s[d] = "."
             den == Pow10(Len(s) - d)
             mag == StrToNat(SubSeq(s, IF s[1] = "-" THEN 2 ELSE 1, d - 1)) * den
                        + StrToNat(SubSeq(s, d + 1, Len(s)))
             num == IF s[1] = "-" THEN 0 - mag ELSE mag
         IN  FloatCell(num \div GCD(mag, den), den \div GCD(mag, den))

\* one element of pd.to_numeric(series, errors="coerce"); an unparseable
\* value is NaN
ToNumeric(c) ==
    CASE c.k = "null" -> NullCell
      [] c.k \in {"int", "float"} -> c
      [] c.k = "str" -> IF IsNumberStr(c.v) THEN NumberCell(c.v) ELSE NullCell

----------------------------------------------------------------------------
(* TypeInferencer.infer                                                    *)

ColumnTypes == {"currency", "percentage", "date", "numeric", "period", "id", "text"}

\* the characters of the inferencer's currency class; the euro and pound
\* signs are written as the atoms "EUR" and "GBP"
CurrencyChars == {"$", "EUR", "GBP"}

TypeInfo(t, c) == [column_type |-> t, confidence |-> c]

\* IsYearColumn without the branch for float labels
IsYearColumn_NoFloatBranch(col) ==
    LET col_str == Strip(LabelStr(col)) IN
    \/ col.k = "int" /\ 1900 <= col.v /\ col.v <= 2100
    \/ IsDigitStr(col_str) /\ 1900 <= StrToNat(col_str) /\ StrToNat(col_str) <= 2100

\* the year test on the column name
IsYearColumn(col) ==
    LET col_str == Strip(LabelStr(col)) IN
    \/ col.k = "int" /\ 1900 <= col.v /\ col.v <= 2100
    \/ /\ col.k = "float"
       /\ col.v % FloatScale = 0
       /\ 1900 <= col.v \div FloatScale /\ col.v \div FloatScale <= 2100
    \/ IsDigitStr(col_str) /\ 1900 <= StrToNat(col_str) /\ StrToNat(col_str) <= 2100

\* series.astype(float) of an element whose string form is all digits
DigitValue(c) == IF c.k = "int" THEN IntOf(c) ELSE StrToNat(c.v)

SkipDateDetection(dtype, series) ==
    LET strs == [i \in 1..Len(series) |-> AsStr(series[i].v, dtype)] IN
    \/ dtype \in {"int64", "float64"}
    \/ /\ \A i \in 1..Len(series) : IsDigitStr(strs[i])
       /\ \A i \in 1..Len(series) :
              1900 <= DigitValue(series[i].v) /\ DigitValue(series[i].v) <= 2100

\* IdOrText reporting the uniqueness ratio itself, without the handler for
\* the division by zero
IdOrText_UniquenessAsConfidence(dtype, series) ==
    IF dtype # "object" THEN TypeInfo("text", Ratio(1, 2))
    ELSE IF NUnique(series) * 10 > 9 * SLen(series) THEN TypeInfo("id", Ratio(4, 5))
    ELSE TypeInfo("text", Ratio(NUnique(series), SLen(series)))

\* the last rule: id for a unique object column, else text; the division
\* by len(series) raises on an empty series and the handler answers text 0.3
IdOrText(dtype, series) ==
    IF dtype # "object" THEN TypeInfo("text", Ratio(1, 2))
    ELSE IF SLen(series) = 0 THEN TypeInfo("text", Ratio(3, 10))
    ELSE IF NUnique(series) * 10 > 9 * SLen(series) THEN TypeInfo("id", Ratio(4, 5))
    ELSE TypeInfo("text", Ratio(1, 2))

\* the cascade for one column that is not a year column
InferValues(dtype, series) ==
    LET strs == [i \in 1..Len(series) |-> AsStr(series[i].v, dtype)]
        pct == MaskMean(series, [i \in 1..Len(series) |-> EndsWith(strs[i], "%")])
        cur == MaskMean(series,
                   [i \in 1..Len(series) |-> ContainsAny(strs[i], CurrencyChars)])
        parsed == MaskMean(series,
                   [i \in 1..Len(series) |-> ~IsNull(ToDatetime(series[i].v))])
        numeric == MaskMean(series,
                   [i \in 1..Len(series) |-> ~IsNull(ToNumeric(series[i].v))])
    IN  IF RatioGT(pct, 1, 2) THEN TypeInfo("percentage", pct)
        ELSE IF RatioGT(cur, 3, 10) THEN TypeInfo("currency", cur)
        ELSE IF ~SkipDateDetection(dtype, series) /\ RatioGT(parsed, 1, 2)
             THEN TypeInfo("date", parsed)
        ELSE IF RatioGT(numeric, 7, 10) THEN TypeInfo("numeric", numeric)
        ELSE IdOrText(dtype, series)

InferColumn(col, dtype, series) ==
    IF IsYearColumn(col) THEN TypeInfo("period", Ratio(1, 1))
    ELSE InferValues(dtype, series)

\* a dict as a sequence of [key, val] in insertion order; d[key] = val
DictSet(d, key, val) ==
    IF \E i \in 1..Len(d) : d[i].key = key
    THEN [i \in 1..Len(d) |-> IF d[i].key = key THEN [key |-> key, val |-> val] ELSE d[i]]
    ELSE Append(d, [key |-> key, val |-> val])

DictHas(d, key) == \E i \in 1..Len(d) : d[i].key = key

DictGet(d, key) == d[CHOOSE i \in 1..Len(d) : d[i].key = key].val

DictKeys(d) == [i \in 1..Len(d) |-> d[i].key]

\* df[col] is a DataFrame when the label occurs more than once, and the
\* .str accessor of the first heuristic then raises
InferRaisesAt(df, j) ==
    /\ ~IsYearColumn(df.cols[j].name)
    /\ Cardinality(Positions(df, df.cols[j].name)) > 1

RECURSIVE InferFrom(_, _, _)
InferFrom(df, j, acc) ==
    IF j > Len(df.cols) THEN [raised |-> FALSE, info |-> acc]
    ELSE IF InferRaisesAt(df, j) THEN [raised |-> TRUE, info |-> acc]
    ELSE InferFrom(df, j + 1,
             DictSet(acc, LabelStr(df.cols[j].name),
                     InferColumn(df.cols[j].name, df.cols[j].dtype, SeriesAt(df, j))))

\* TypeInferencer.infer(df)
Infer(df) == InferFrom(df, 1, <<>>)

----------------------------------------------------------------------------
(* Layout detection and normalisation (layout.py)                          *)

L_metric == StrLabel(<<"m", "e", "t", "r", "i", "c">>)
L_period == StrLabel(<<"p", "e", "r", "i", "o", "d">>)
L_value == StrLabel(<<"v", "a", "l", "u", "e">>)

\* Python None where a label is expected
NoneLabel == [k |-> "none", v |-> <<>>]

\* bool(label)
Truthy(col) ==
    CASE col.k = "none" -> FALSE
      [] col.k = "str" -> col.v # <<>>
      [] col.k \in {"int", "float"} -> col.v # 0

IsQuarter(r) == Len(r) = 2 /\ r[1] \in {"Q", "q"} /\ r[2] \in {"1", "2", "3", "4"}

\* ^(19|20)\d{2}([-_/]?Q[1-4])?$ on str(col), ignoring case
LooksLikePeriod(col) ==
    LET s == LabelStr(col) IN
    /\ Len(s) >= 4
    /\ SubSeq(s, 1, 2) \in {<<"1", "9">>, <<"2", "0">>}
    /\ IsDigitChar(s[3]) /\ IsDigitChar(s[4])
    /\ \/ Len(s) = 4
       \/ IsQuarter(SubSeq(s, 5, Len(s)))
       \/ Len(s) = 7 /\ s[5] \in {"-", "_", "/"} /\ IsQuarter(SubSeq(s, 6, 7))

\* pd.to_datetime(df[col], errors="coerce").notna().sum()
DateCount(df, j) ==
    MaskSum(SeriesAt(df, j),
            [i \in 1..Len(df.rows) |-> ~IsNull(ToDatetime(df.rows[i].cells[j]))])

\* the number of rows of the sample detect_layout draws of a longer frame
SAMPLE_ROWS == 100

\* df.sample(n) taking taken[i] rows of the i-th run of rows
Sample(df, taken) ==
    [df EXCEPT !.rows = [i \in 1..Len(df.rows) |-> [df.rows[i] EXCEPT !.n = taken[i]]]]

\* what df.sample(min(len(df), 100)) can return; a frame of at most 100
\* rows is not sampled
Samples(df) ==
    IF NRows(df) <= SAMPLE_ROWS THEN {df}
    ELSE {Sample(df, t) : t \in {u \in [1..Len(df.rows) -> 0..SAMPLE_ROWS] :
                                     /\ \A i \in 1..Len(df.rows) : u[i] <= df.rows[i].n
                                     /\ Sum(u) = SAMPLE_ROWS}}

\* detect_layout testing the dates of the sampled rows
DetectLayoutFrom_SampledRows(df, sample) ==
    IF Cardinality({j \in 1..Len(df.cols) : LooksLikePeriod(df.cols[j].name)}) >= 2
    THEN "wide"
    ELSE IF \E j \in 1..Len(sample.cols) :
                RatioGT(Ratio(DateCount(sample, j), NRows(df)), 1, 5)
    THEN "long"
    ELSE "unknown"

\* detect_layout trying the date test before the test of the column names
DetectLayoutFrom_DatesFirst(df, sample) ==
    IF \E j \in 1..Len(sample.cols) :
                RatioGT(Ratio(DateCount(df, j), NRows(df)), 1, 5)
    THEN "long"
    ELSE IF Cardinality({j \in 1..Len(df.cols) : LooksLikePeriod(df.cols[j].name)}) >= 2
    THEN "wide"
    ELSE "unknown"

\* detect_layout(df) when df.sample returns `sample': of the sample only the
\* columns are used, the dates are those of df[col]
DetectLayoutFrom(df, sample) ==
    IF Cardinality({j \in 1..Len(df.cols) : LooksLikePeriod(df.cols[j].name)}) >= 2
    THEN "wide"
    ELSE IF \E j \in 1..Len(sample.cols) :
                RatioGT(Ratio(DateCount(df, j), NRows(df)), 1, 5)
    THEN "long"
    ELSE "unknown"

\* detect_layout(df); the row sample keeps every column
DetectLayout(df) == DetectLayoutFrom(df, df)

\* pandas.api.types.is_numeric_dtype
IsNumericDtype(dtype) ==
    dtype \in {"int64", "float64", "int64[pyarrow]", "double[pyarrow]"}

\* a Python list comprehension: the elements of seq at the positions of keep
Filter(seq, keep) ==
    LET F[i \in 0..Len(seq)] ==
            IF i = 0 THEN <<>>
            ELSE IF i \in keep THEN Append(F[i - 1], seq[i]) ELSE F[i - 1]
    IN F[Len(seq)]

InSeq(x, seq) == \E i \in 1..Len(seq) : seq[i] = x

\* next((c for c in df.columns if <position in ok>), default)
FirstOr(df, ok, default) ==
    IF ok = {} THEN default
    ELSE df.cols[CHOOSE j \in ok : \A j2 \in ok : j <= j2].name

\* identify_metric_period(df, layout)
IdentifyMetricPeriod(df, layout) ==
    LET all == 1..Len(df.cols)
        period_like == Filter(Columns(df), {j \in all : LooksLikePeriod(df.cols[j].name)})
        period_columns ==
            IF layout = "wide"
            THEN [i \in 1..Len(period_like) |-> StrLabel(LabelStr(period_like[i]))]
            ELSE IF layout = "long"
            THEN Filter(Columns(df), {j \in all : DateCount(df, j) > 0})
            ELSE <<>>
        first ==
            IF layout = "wide"
            THEN FirstOr(df, {j \in all : ~IsNumericDtype(df.cols[j].dtype)}, NoneLabel)
            ELSE IF layout = "long"
            THEN FirstOr(df, {j \in all : ~InSeq(df.cols[j].name, period_columns)}, NoneLabel)
            ELSE NoneLabel
        metric_column ==
            IF first = NoneLabel /\ \E j \in all : Truthy(df.cols[j].name)
            THEN FirstOr(df, {j \in all : ~InSeq(df.cols[j].name, period_columns)},
                         StrLabel(LabelStr(df.cols[1].name)))
            ELSE first
    IN  [layout |-> layout, metric_column |-> metric_column, period_columns |-> period_columns]

\* the dtype of the value column of a melt
MeltDtype(dtypes) ==
    IF Cardinality(dtypes) = 1 THEN CHOOSE d \in dtypes : TRUE
    ELSE IF dtypes \subseteq {"int64", "float64"} THEN "float64"
    ELSE "object"

\* the first position of a label
ColIndex(df, col) == CHOOSE j \in Positions(df, col) : \A j2 \in Positions(df, col) : j <= j2

\* concatenation of a sequence of sequences
Flatten(ss) ==
    LET F[i \in 0..Len(ss)] == IF i = 0 THEN <<>> ELSE F[i - 1] \o ss[i]
    IN F[Len(ss)]

\* df.rename(columns={old: new})
Rename(df, old, new) ==
    [df EXCEPT !.cols = [j \in 1..Len(df.cols) |->
        IF df.cols[j].name = old THEN [df.cols[j] EXCEPT !.name = new] ELSE df.cols[j]]]

\* df.melt(id_vars=[metric], value_vars=value_vars, var_name="period",
\* value_name="value"): the id column is taken out first and every remaining
\* value column contributes all its rows in turn
MeltRaises(df, metric, value_vars) ==
    \/ Positions(df, metric) = {}
    \/ \E i \in 1..Len(value_vars) : Positions(df, value_vars[i]) = {}
    \/ Positions(df, L_value) # {}

Melt(df, metric, value_vars) ==
    LET vv == Filter(value_vars, {i \in 1..Len(value_vars) : value_vars[i] # metric})
        mj == ColIndex(df, metric)
        block(i) ==
            [r \in 1..Len(df.rows) |->
                [cells |-> << df.rows[r].cells[mj],
                              StrCell(vv[i].v),
                              df.rows[r].cells[ColIndex(df, vv[i])] >>,
                 n |-> df.rows[r].n]]
    IN  [cols |-> << [name |-> metric, dtype |-> df.cols[mj].dtype],
                     [name |-> L_period, dtype |-> "object"],
                     [name |-> L_value,
                      dtype |-> MeltDtype({df.cols[ColIndex(df, vv[i])].dtype : i \in 1..Len(vv)})] >>,
         rows |-> Flatten([i \in 1..Len(vv) |-> block(i)])]

\* to_long(df, layout_info): the frame returned, or the exception of melt,
\* with the action and the row count handed to the audit logger
ToLong(df, layout_info) ==
    LET metric == IF Truthy(layout_info.metric_column) THEN layout_info.metric_column
                  ELSE L_metric
    IN  IF layout_info.layout = "wide"
        THEN IF MeltRaises(df, metric, layout_info.period_columns)
             THEN [raised |-> TRUE, df |-> df, action |-> "melt_wide"]
             ELSE [raised |-> FALSE,
                   df |-> Rename(Melt(df, metric, layout_info.period_columns), metric, L_metric),
                   action |-> "melt_wide"]
        ELSE [raised |-> FALSE,
              df |-> IF Positions(df, metric) # {} /\ metric # L_metric
                     THEN Rename(df, metric, L_metric) ELSE df,
              action |-> IF layout_info.layout = "long" THEN "pass_through_long"
                         ELSE "unknown_layout"]

----------------------------------------------------------------------------
(* Readers: the dtype a reader gives a column                              *)

Backends == {"pyarrow", "numpy"}

NonNull(vals) == {i \in 1..Len(vals) : ~IsNull(vals[i])}

\* pd.read_csv / ExcelFile.parse with dtype_backend="pyarrow" (the pipeline
\* readers) and plain pd.read_csv / pd.read_excel (the service's fallbacks)
ReadDtype(vals, backend) ==
    IF backend = "pyarrow"
    THEN IF NonNull(vals) = {} THEN "null[pyarrow]"
         ELSE IF \A i \in NonNull(vals) : vals[i].k = "int" THEN "int64[pyarrow]"
         ELSE "string[pyarrow]"
    ELSE IF Len(vals) = 0 THEN "object"
         ELSE IF NonNull(vals) = {} THEN "float64"
         ELSE IF \A i \in NonNull(vals) : vals[i].k = "int"
              THEN IF NonNull(vals) = 1..Len(vals) THEN "int64" ELSE "float64"
         ELSE "object"

----------------------------------------------------------------------------
(* Inputs of the inference specification                                   *)

S_pct == <<"2", "5", "%">>
S_cur == <<"$", "5">>
S_date == <<"2", "0", "2", "4", "-", "0", "1", "-", "1", "5">>
S_abc == <<"a", "b", "c">>
S_xyz == <<"x", "y", "z">>
S_2023 == <<"2", "0", "2", "3">>
S_2024 == <<"2", "0", "2", "4">>
S_Item == <<"I", "t", "e", "m">>

IntCellsU == {IntCell(7), IntCell(1950), IntCell(2024)}
StrCellsU == {StrCell(S_pct), StrCell(S_cur), StrCell(S_date), StrCell(S_abc), StrCell(S_xyz)}
YearCellsU == {StrCell(S_2023), StrCell(S_2024)}

SeqsUpTo(S, n) == UNION {[1..m -> S] : m \in 0..n}

\* the columns a reader can produce: numbers with gaps, or text with gaps
RawColumns(n) ==
    SeqsUpTo(IntCellsU \cup {NullCell}, n) \cup SeqsUpTo(StrCellsU \cup {NullCell}, n)

\* the period column a melt produces: year strings, dtype object
MeltedColumns(n) == SeqsUpTo(YearCellsU, n) \ {<<>>}

InferLabels ==
    { StrLabel(S_Item), StrLabel(S_2024), StrLabel(<<" ", "2", "0", "2", "4", " ">>),
      StrLabel(<<"1", "9", "0", "0">>), StrLabel(<<"2", "1", "0", "1">>),
      StrLabel(<<"2", "0", "2", "4", "Q", "1">>),
      IntLabel(2024), IntLabel(2100), IntLabel(1899),
      FloatLabel(20240), FloatLabel(20245) }

OneColumn(name, dtype, vals) ==
    [cols |-> <<[name |-> name, dtype |-> dtype]>>,
     rows |-> [i \in 1..Len(vals) |-> [cells |-> <<vals[i]>>, n |-> 1]]]

\* a table of one row and two columns
TwoColumns(l1, l2, c1, c2, b) ==
    [cols |-> <<[name |-> l1, dtype |-> ReadDtype(<<c1>>, b)],
                [name |-> l2, dtype |-> ReadDtype(<<c2>>, b)]>>,
     rows |-> <<[cells |-> <<c1, c2>>, n |-> 1]>>]

\* labels of two-column tables: a header can hold the number 2024 next to
\* the text "2024", and a frame can carry a label twice
PairLabels == {StrLabel(S_Item), StrLabel(<<"C", "o", "d", "e">>), StrLabel(S_2024), IntLabel(2024)}

PairCells == {StrCell(S_abc), StrCell(S_cur), IntCell(7), NullCell}

PairTables ==
    {TwoColumns(l1, l2, c1, c2, b) :
        l1 \in PairLabels, l2 \in PairLabels, c1 \in PairCells, c2 \in PairCells, b \in Backends}

\* the tables of at most n rows
InferTables(n) ==
    {OneColumn(l, ReadDtype(vals, b), vals) : l \in InferLabels, b \in Backends, vals \in RawColumns(n)}
    \cup {OneColumn(l, "object", vals) : l \in InferLabels, vals \in MeltedColumns(n)}
    \cup PairTables

----------------------------------------------------------------------------
(* Specification of TypeInferencer.infer as a function of its input        *)

NoInfo == [raised |-> FALSE, info |-> <<>>]
NoLayout == [layout |-> "none", metric_column |-> NoneLabel, period_columns |-> <<>>]
EmptyFrame == [cols |-> <<>>, rows |-> <<>>]
NoLong == [raised |-> FALSE, df |-> EmptyFrame, action |-> "none"]
NoFile == [kind |-> "none", size |-> 0, utf8 |-> TRUE, sheets |-> <<>>]
NoRun == [entry |-> "none", status |-> "idle", error |-> "none", parsed |-> FALSE,
          sheets |-> <<>>, next |-> 1, results |-> <<>>]
NoSvc == [results |-> <<>>, errors |-> <<>>, next |-> 1, outcome |-> "none"]

\* no logger, no trail, the clock at its origin
IdleAudit == lists = <<>> /\ now = 0 /\ logger = 0 /\ trails = <<>>
\* no upload in progress
\* session["data"]: None, pd.DataFrame(clean_data) of a PipelineResult, or
\* the frame pandas read from the file
NoData == [kind |-> "none", records |-> <<>>, frame |-> EmptyFrame]
\* session["metadata"]: None or a dict
NoMeta == [kind |-> "none", rows |-> 0, columns |-> <<>>]
\* session["current_sheet"] = None
NoSheet == [k |-> "none", v |-> <<>>]

\* no dict under the session id
NoSession ==
    [exists |-> FALSE, data |-> NoData, metadata |-> NoMeta,
     pipeline_results |-> <<>>, current_sheet |-> NoSheet]

NoReply == [call |-> "none", arg |-> <<>>, success |-> FALSE, chat |-> "none"]

IdleSession == session = NoSession /\ reply = NoReply

IdleService == file = NoFile /\ run = NoRun /\ svc = NoSvc /\ IdleSession
\* no step under analysis
IdleSteps ==
    /\ conf = "none"
    /\ cleaned = [raised |-> FALSE, df |-> EmptyFrame, logs |-> <<>>]
    /\ profiled = [raised |-> FALSE, logs |-> <<>>]
    /\ engine = "none"
    /\ reruns = <<>>

InitInfer ==
    /\ pc = "start"
    /\ table \in InferTables(MaxRows)
    /\ info = NoInfo
    /\ layoutInfo = NoLayout
    /\ longDf = NoLong
    /\ IdleAudit /\ IdleService /\ IdleSteps

InferStep ==
    /\ pc = "start"
    /\ info' = Infer(table)
    /\ pc' = "done"
    /\ UNCHANGED <<table, layoutInfo, longDf, auditVars, svcVars, stepVars>>

NextInfer == InferStep

SpecInfer == InitInfer /\ [][NextInfer]_vars

\* a label that is a year of [1900, 2100] as int, integral float or digit string
IsClaimedYear(l) ==
    \E y \in 1900..2100 :
        \/ l.k = "int" /\ l.v = y
        \/ l.k = "float" /\ l.v = y * FloatScale
        \/ l.k = "str" /\ l.v = NatToStr(y)

\* percentage-, currency- or date-looking values
LooksTyped(c) == c \in {StrCell(S_pct), StrCell(S_cur), StrCell(S_date)}

\* C9: infer classifies every column named by a year of [1900, 2100] (int,
\* integral float or digit string) as period with confidence 1.0, whatever
\* its values are.
C9_YearColumnIsPeriod ==
    pc = "done" =>
        \A j \in 1..Len(table.cols) :
            IsClaimedYear(table.cols[j].name) =>
                /\ ~info.raised
                /\ DictHas(info.info, LabelStr(table.cols[j].name))
                /\ DictGet(info.info, LabelStr(table.cols[j].name))
                       = TypeInfo("period", Ratio(1, 1))

C9_Witness ==
    /\ pc = "done"
    /\ \E j \in 1..Len(table.cols) :
        /\ IsClaimedYear(table.cols[j].name)
        /\ Len(table.rows) > 1
        /\ \A i \in 1..Len(table.rows) : LooksTyped(table.rows[i].cells[j])
        /\ DictGet(info.info, LabelStr(table.cols[j].name)).column_type = "period"

\* C10: every reported confidence is a number of [0, 1] and every reported
\* column_type one of the seven types, empty and all-null columns included.
C10_ConfidenceAndTypeInRange ==
    pc = "done" =>
        \A i \in 1..Len(info.info) :
            /\ info.info[i].val.column_type \in ColumnTypes
            /\ info.info[i].val.confidence.den > 0
            /\ 0 <= info.info[i].val.confidence.num
            /\ info.info[i].val.confidence.num <= info.info[i].val.confidence.den

C10_Witness ==
    /\ pc = "done"
    /\ Len(info.info) = 1
    /\ \A i \in 1..Len(table.rows) : IsNull(table.rows[i].cells[1])
    /\ table.cols[1].dtype = "object"
    /\ info.info[1].val.column_type = "text"

\* C16: when a heuristic check raises on a column, infer does not abort:
\* the call returns, and every column of the table has its entry in the
\* returned mapping.
C16_InferSurvivesFailingHeuristic ==
    pc = "done" =>
        /\ ~info.raised
        /\ \A j \in 1..Len(table.cols) : DictHas(info.info, LabelStr(table.cols[j].name))

\* C17: infer returns exactly one entry per column of the table: the
\* mapping has as many entries as the table has columns, also when two
\* labels have the same string form or a label occurs twice.
C17_OneEntryPerColumn ==
    pc = "done" =>
        /\ ~info.raised
        /\ Len(info.info) = Len(table.cols)

\* a column whose values are numbers or missing
NumericOnly(series) == \A i \in 1..Len(series) : series[i].v.k \in {"null", "int", "float"}

\* a column whose every value is an integer year of [1900, 2100]
EveryValueYear(series) ==
    \A i \in 1..Len(series) :
        \/ series[i].v.k = "int" /\ IntOf(series[i].v) \in 1900..2100
        \/ series[i].v.k = "str" /\ IsDigitStr(series[i].v.v)
                                 /\ StrToNat(series[i].v.v) \in 1900..2100

\* the fraction of the values of a series whose string form ends with %,
\* holds a currency symbol, parses as a date, parses as a number
PctFraction(dtype, series) ==
    MaskMean(series, [i \in 1..Len(series) |-> EndsWith(AsStr(series[i].v, dtype), "%")])
CurFraction(dtype, series) ==
    MaskMean(series,
        [i \in 1..Len(series) |-> ContainsAny(AsStr(series[i].v, dtype), CurrencyChars)])
DateFraction(series) ==
    MaskMean(series, [i \in 1..Len(series) |-> ~IsNull(ToDatetime(series[i].v))])
NumberFraction(series) ==
    MaskMean(series, [i \in 1..Len(series) |-> ~IsNull(ToNumeric(series[i].v))])

\* the earliest rule of the cascade whose threshold the column meets, with
\* the confidence of that rule
EarliestRule(col, dtype, series) ==
    IF IsYearColumn(col) THEN TypeInfo("period", Ratio(1, 1))
    ELSE IF RatioGT(PctFraction(dtype, series), 1, 2)
         THEN TypeInfo("percentage", PctFraction(dtype, series))
    ELSE IF RatioGT(CurFraction(dtype, series), 3, 10)
         THEN TypeInfo("currency", CurFraction(dtype, series))
    ELSE IF /\ ~NumericOnly(series) /\ ~EveryValueYear(series)
            /\ RatioGT(DateFraction(series), 1, 2)
         THEN TypeInfo("date", DateFraction(series))
    ELSE IF RatioGT(NumberFraction(series), 7, 10)
         THEN TypeInfo("numeric", NumberFraction(series))
    ELSE IF ~NumericOnly(series) /\ RatioGT(Ratio(NUnique(series), SLen(series)), 9, 10)
         THEN TypeInfo("id", Ratio(4, 5))
    ELSE TypeInfo("text", Ratio(1, 2))

\* C21: the type of a column is that of the earliest rule it meets, in the
\* order period, percentage, currency, date, numeric, id, with that rule's
\* confidence; a column that meets none is text with confidence 0.5.
C21_FirstMatchWins ==
    (pc = "done" /\ ~info.raised /\ Len(table.cols) = 1) =>
        info.info[1].val
            = EarliestRule(table.cols[1].name, table.cols[1].dtype, SeriesAt(table, 1))

\* a column with at least one row and no missing value
AllPresent(series) ==
    Len(series) > 0 /\ \A i \in 1..Len(series) : ~IsNull(series[i].v)

\* C22: a column of numbers only, or of integer years of [1900, 2100] only,
\* is never classified date, whatever numeric dtype the reader gave it; when
\* it has a value in every row and is not period, percentage or currency,
\* it is classified numeric.
C22_NumbersAreNeverDates ==
    (pc = "done" /\ ~info.raised /\ Len(table.cols) = 1
        /\ (NumericOnly(SeriesAt(table, 1)) \/ EveryValueYear(SeriesAt(table, 1)))) =>
        /\ info.info[1].val.column_type # "date"
        /\ (AllPresent(SeriesAt(table, 1))
              /\ info.info[1].val.column_type \notin {"period", "percentage", "currency"})
           => info.info[1].val.column_type = "numeric"

----------------------------------------------------------------------------
(* Specification of detect_layout, identify_metric_period and to_long      *)

L_Item == StrLabel(S_Item)
L_Date == StrLabel(<<"D", "a", "t", "e">>)
L_Amount == StrLabel(<<"A", "m", "o", "u", "n", "t">>)
L_Code == StrLabel(<<"C", "o", "d", "e">>)
L_2023 == StrLabel(S_2023)
L_2024 == StrLabel(S_2024)
L_2024Q1 == StrLabel(<<"2", "0", "2", "4", "Q", "1">>)
\* names around the pattern: a quarter in lower case, a fifth quarter
L_2023q4 == StrLabel(<<"2", "0", "2", "3", "-", "q", "4">>)
L_2024Q5 == StrLabel(<<"2", "0", "2", "4", "Q", "5">>)
L_2023Q1 == StrLabel(<<"2", "0", "2", "3", "_", "Q", "1">>)
L_2024q2 == StrLabel(<<"2", "0", "2", "4", "/", "q", "2">>)

\* a column of a header: its label and the values its cells are drawn from
HC(name, dom) == [name |-> name, dom |-> dom]

TextDom == {StrCell(S_abc), StrCell(S_xyz)}
TextNullDom == {StrCell(S_abc), NullCell}
DateDom == {StrCell(S_date), StrCell(S_abc)}
NumDom == {IntCell(1000), IntCell(1200)}
NumNullDom == {IntCell(7), NullCell}

LayoutHeaders ==
    { <<HC(L_Item, TextDom), HC(L_2023, NumDom), HC(L_2024, NumNullDom)>>,
      <<HC(L_Item, TextDom), HC(IntLabel(2023), NumDom), HC(IntLabel(2024), NumDom)>>,
      <<HC(L_Item, TextDom), HC(L_2023, NumDom), HC(L_2024Q1, NumDom)>>,
      <<HC(L_2023, NumDom), HC(L_2024, NumDom)>>,
      <<HC(L_Date, DateDom), HC(L_Item, TextDom), HC(L_Amount, NumNullDom)>>,
      <<HC(L_metric, TextDom), HC(L_period, DateDom), HC(L_value, NumDom)>>,
      <<HC(L_Item, TextDom), HC(L_Amount, NumNullDom)>>,
      <<HC(L_Item, TextDom), HC(L_2023, NumDom)>>,
      <<HC(L_Item, TextNullDom), HC(L_Code, TextDom)>>,
      <<HC(L_Item, TextNullDom)>>,
      <<HC(L_Item, TextDom), HC(L_2023q4, NumDom), HC(L_2024Q5, NumDom)>>,
      <<HC(L_2023Q1, TextDom), HC(L_2024q2, TextDom)>>,
      <<HC(L_2023, NumDom), HC(L_2024, NumDom), HC(L_Amount, {IntCell(7)})>>,
      <<HC(L_Date, DateDom), HC(L_Amount, NumDom)>> }

\* the rows a header admits: one value of each column's domain per cell
RowsOf(header) ==
    {r \in [1..Len(header) -> UNION {header[j].dom : j \in 1..Len(header)}] :
        \A j \in 1..Len(header) : r[j] \in header[j].dom}

\* the DataFrame a reader makes of a header and rows of cells
Frame(header, rows, backend) ==
    [cols |-> [j \in 1..Len(header) |->
                 [name |-> header[j].name,
                  dtype |-> ReadDtype([i \in 1..Len(rows) |-> rows[i][j]], backend)]],
     rows |-> [i \in 1..Len(rows) |-> [cells |-> rows[i], n |-> 1]]]

LayoutTables(n) ==
    UNION { {Frame(h, rows, b) : rows \in SeqsUpTo(RowsOf(h), n), b \in Backends}
            : h \in LayoutHeaders }

InitLayout ==
    /\ pc = "start"
    /\ table \in LayoutTables(MaxLayoutRows)
    /\ info = NoInfo
    /\ layoutInfo = NoLayout
    /\ longDf = NoLong
    /\ IdleAudit /\ IdleService /\ IdleSteps

\* layout = detect_layout(df); layout_info = identify_metric_period(df, layout)
IdentifyStep ==
    /\ pc = "start"
    /\ layoutInfo' = IdentifyMetricPeriod(table, DetectLayout(table))
    /\ pc' = "identified"
    /\ UNCHANGED <<table, info, longDf, auditVars, svcVars, stepVars>>

\* df_long = to_long(df, layout_info)
NormaliseStep ==
    /\ pc = "identified"
    /\ longDf' = ToLong(table, layoutInfo)
    /\ pc' = "done"
    /\ UNCHANGED <<table, info, layoutInfo, auditVars, svcVars, stepVars>>

NextLayout == IdentifyStep \/ NormaliseStep

SpecLayout == InitLayout /\ [][NextLayout]_vars

ColumnSet(df) == {df.cols[j].name : j \in 1..Len(df.cols)}

\* C2: whatever the detected layout, the table returned by to_long has the
\* columns metric, period and value.
C2_ToLongHasCanonicalColumns ==
    (pc = "done" /\ ~longDf.raised) =>
        {L_metric, L_period, L_value} \subseteq ColumnSet(longDf.df)

\* C20: for every table with at least one column, detect_layout, then
\* identify_metric_period, then to_long complete without raising and return
\* a table, whatever the layout and whether or not a metric column was
\* identified.
C20_NormalisationNeverRaises ==
    (pc = "done" /\ Len(table.cols) >= 1) => ~longDf.raised

\* what may follow the year in a period name: nothing, or a quarter Q1..Q4
\* in either case after an optional -, _ or /
QuarterSuffixes ==
    {<<>>} \cup {sep \o <<q, d>> : sep \in {<<>>, <<"-">>, <<"_">>, <<"/">>},
                                   q \in {"Q", "q"}, d \in {"1", "2", "3", "4"}}

\* a column name that is a year 19xx or 20xx with an optional quarter
IsYearQuarterName(l) ==
    LET s == LabelStr(l) IN
    /\ Len(s) >= 4
    /\ IsDigitStr(SubSeq(s, 1, 4))
    /\ StrToNat(SubSeq(s, 1, 4)) \in 1900..2099
    /\ SubSeq(s, 5, Len(s)) \in QuarterSuffixes

YearQuarterNames(df) == {j \in 1..Len(df.cols) : IsYearQuarterName(df.cols[j].name)}

\* the columns that parse as a date in more than 20% of the rows
DateColumns(df) ==
    {j \in 1..Len(df.cols) :
        LET parsed == {i \in 1..Len(df.rows) : ~IsNull(ToDatetime(df.rows[i].cells[j]))}
        IN  Len(df.rows) > 0
            /\ 5 * Sum([i \in 1..Len(df.rows) |-> IF i \in parsed THEN df.rows[i].n ELSE 0])
                 > NRows(df)}

FirstNonNumericOrFirst(df) ==
    LET text == {j \in 1..Len(df.cols) : ~IsNumericDtype(df.cols[j].dtype)}
    IN  IF text = {} THEN df.cols[1].name
        ELSE df.cols[CHOOSE j \in text : \A j2 \in text : j <= j2].name

\* C24: for a wide table period_columns are the period-like columns of the
\* table, in column order and as the table labels them, and metric_column is
\* the first non-numeric column, or the first column of the table when
\* every column is numeric.
C24_WidePeriodsAndMetric ==
    (pc # "start" /\ layoutInfo.layout = "wide") =>
        /\ layoutInfo.period_columns = Filter(Columns(table), YearQuarterNames(table))
        /\ layoutInfo.metric_column = FirstNonNumericOrFirst(table)

\* C28: whatever the table and its layout, the metric column that
\* identify_metric_period returns is none of the period columns it returns.
C28_MetricIsNoPeriodColumn ==
    pc # "start" => ~InSeq(layoutInfo.metric_column, layoutInfo.period_columns)

----------------------------------------------------------------------------
(* AuditLogger and AuditTrail                                              *)
(* A Python list is an object: a variable holds its address in the heap    *)
(* `lists', so that two holders of one list see each other's appends.      *)

PIPELINE_VERSION == "0.1.0"

NoneStr == <<"N", "o", "n", "e">>
NoColumn == [k |-> "none", v |-> <<>>]
NoCount == -1

\* AuditEntry(step, action, column, rows_affected, details, timestamp); of
\* details the model keeps the list under the key "errors", empty when the
\* key is absent; seq is a history field: the ordinal of the append that put
\* the entry in its list
AuditEntry(step, action, column, rows_affected, details, timestamp, seq) ==
    [step |-> step, action |-> action, column |-> column,
     rows_affected |-> rows_affected, details |-> details,
     timestamp |-> timestamp, seq |-> seq]

\* list.append(e) placing the entry at the front
ListAppend_AtFront(heap, ref, e) == [heap EXCEPT ![ref] = <<e>> \o @]

\* list.append(e) on the list at address ref
ListAppend(heap, ref, e) == [heap EXCEPT ![ref] = Append(@, e)]

\* a reference to the same list
ListCopy_SameList(heap, ref) == [heap |-> heap, ref |-> ref]

\* list.copy(): a new list with the same elements
ListCopy(heap, ref) == [heap |-> Append(heap, heap[ref]), ref |-> Len(heap) + 1]

\* AuditLogger(): self._entries = []
\* a logger that keeps writing to the newest list of the heap
NewLogger_SharedList(heap) ==
    IF heap = <<>> THEN [heap |-> <<<<>>>>, ref |-> 1] ELSE [heap |-> heap, ref |-> Len(heap)]

NewLogger(heap) == [heap |-> Append(heap, <<>>), ref |-> Len(heap) + 1]

\* AuditLogger.log: the entry is stamped with utcnow() and appended
Log(heap, ref, step, action, column, rows_affected, clock) ==
    ListAppend(heap, ref,
        AuditEntry(step, action, column, rows_affected, <<>>, clock, Len(heap[ref]) + 1))

\* AuditLogger.to_trail
ToTrail(heap, ref) ==
    LET c == ListCopy(heap, ref)
    IN  [heap |-> c.heap,
         trail |-> [pipeline_version |-> PIPELINE_VERSION, entries |-> c.ref]]

\* _create_error_audit_entry(errors), for the list it is appended to
CreateErrorAuditEntry(heap, ref, errors, clock) ==
    AuditEntry("error_recovery", "sheet_processing_errors", NoColumn, NoCount,
               errors, clock, Len(heap[ref]) + 1)

\* an item of processing_errors
SheetError(sheet, error) == [sheet |-> sheet, error |-> error]

----------------------------------------------------------------------------
(* Specification of the audit objects: a logger, the trails taken of it,   *)
(* and the operations the program performs on them in any order            *)

LogCalls ==
    { <<"type_inferencer", "infer", NoColumn, 2>>,
      <<"cleaner", "parse_date", [k |-> "str", v |-> <<"D">>], NoCount>> }

InitAudit ==
    /\ pc = "audit"
    /\ table = EmptyFrame /\ info = NoInfo /\ layoutInfo = NoLayout /\ longDf = NoLong
    /\ lists = NewLogger(<<>>).heap
    /\ logger = NewLogger(<<>>).ref
    /\ now = 0
    /\ trails = <<>>
    /\ IdleService /\ IdleSteps

\* audit.log(...)
LogCall ==
    /\ Len(lists[logger]) < MaxEntries
    /\ \E c \in LogCalls : lists' = Log(lists, logger, c[1], c[2], c[3], c[4], now)
    /\ UNCHANGED <<pc, fnVars, now, logger, trails, svcVars, stepVars>>

\* audit.to_trail()
ToTrailCall ==
    /\ Len(trails) < MaxTrails
    /\ lists' = ToTrail(lists, logger).heap
    /\ trails' = Append(trails, ToTrail(lists, logger).trail)
    /\ UNCHANGED <<pc, fnVars, now, logger, svcVars, stepVars>>

\* result.audit.entries.append(self._create_error_audit_entry(errors)), which
\* _process_excel executes once for a result
AppendErrorEntry ==
    /\ \E t \in 1..Len(trails) :
          /\ \A i \in 1..Len(lists[trails[t].entries]) :
                lists[trails[t].entries][i].step # "error_recovery"
          /\ lists' = ListAppend(lists, trails[t].entries,
                                 CreateErrorAuditEntry(lists, trails[t].entries,
                                     <<SheetError(<<"S">>, "to_long")>>, now))
    /\ UNCHANGED <<pc, fnVars, now, logger, trails, svcVars, stepVars>>

\* time passes
Tick ==
    /\ now < MaxClock
    /\ now' = now + 1
    /\ UNCHANGED <<pc, fnVars, lists, logger, trails, svcVars, stepVars>>

NextAudit == LogCall \/ ToTrailCall \/ AppendErrorEntry \/ Tick

SpecAudit == InitAudit /\ [][NextAudit]_vars

\* the entry lists of the trails handed out so far
TrailLists == {trails[t].entries : t \in 1..Len(trails)}

\* C6: a trail returned by to_trail carries the pipeline version, and a log
\* call made on the logger afterwards leaves the entries of every trail
\* returned before it unchanged.
C6_ToTrailIsSnapshot ==
    [][ /\ \A t \in 1..Len(trails) : trails[t].pipeline_version = PIPELINE_VERSION
        /\ LogCall => \A t \in 1..Len(trails) :
                          lists'[trails[t].entries] = lists[trails[t].entries] ]_vars

C6_Witness ==
    \E t \in 1..Len(trails) :
        /\ trails[t].entries # logger
        /\ Len(lists[logger]) > Len(lists[trails[t].entries])
        /\ \A i \in 1..Len(lists[trails[t].entries]) :
              lists[trails[t].entries][i] = lists[logger][i]

\* C8: in every list of audit entries, of a logger or of a trail, the entries
\* stand in the order of their appends and the timestamps never decrease.
C8_EntriesInLogOrder ==
    \A r \in 1..Len(lists) :
        /\ \A i \in 1..Len(lists[r]) : lists[r][i].seq = i
        /\ \A i \in 1..(Len(lists[r]) - 1) :
              lists[r][i].timestamp <= lists[r][i + 1].timestamp

C8_Witness ==
    \E t \in 1..Len(trails) :
        LET l == lists[trails[t].entries]
        IN  /\ Len(l) >= 3
            /\ l[1].timestamp < l[2].timestamp
            /\ l[Len(l)].step = "error_recovery"
            /\ l[Len(l)].timestamp > l[1].timestamp

----------------------------------------------------------------------------
(* Cleaner: clean_dataframe                                                *)

\* str.replace of every character of a set by ""
Remove(s, chars) == Filter(s, {i \in 1..Len(s) : s[i] \notin chars})

RECURSIVE NegParens(_)
\* re.sub(r"\(([^)]+)\)", r"-\1", s)
NegParens(s) ==
    IF s = <<>> THEN <<>>
    ELSE IF /\ s[1] = "("
            /\ \E j \in 3..Len(s) : s[j] = ")" /\ \A i \in 2..(j - 1) : s[i] # ")"
         THEN LET j == CHOOSE j \in 3..Len(s) : s[j] = ")" /\ \A i \in 2..(j - 1) : s[i] # ")"
              IN  <<"-">> \o SubSeq(s, 2, j - 1) \o NegParens(SubSeq(s, j + 1, Len(s)))
         ELSE <<s[1]>> \o NegParens(Tail(s))

\* one element of _clean_currency(series) without the rule for parentheses
CleanCurrency_NoParens(c, dtype) ==
    ToNumeric(StrCell(Remove(Remove(AsStr(c, dtype), CurrencyChars), {","})))

\* one element of _clean_currency(series); series.astype(str) is a column
\* of Python strings whatever the dtype was
CleanCurrency(c, dtype) ==
    ToNumeric(StrCell(Remove(Remove(NegParens(AsStr(c, dtype)), CurrencyChars), {","})))

\* one element of _clean_percentage(series)
CleanPercentage(c, dtype) ==
    LET numeric == ToNumeric(StrCell(Remove(Remove(AsStr(c, dtype), {"%"}), {","})))
    IN  IF IsNull(numeric) THEN NullCell
        ELSE Num(NumOf(numeric)[1], 100 * NumOf(numeric)[2])

\* series.isna().sum()
NaCount(series) == MaskSum(series, [i \in 1..Len(series) |-> IsNull(series[i].v)])

\* the cells of the column at position j, one per run of rows
CellsAt(df, j) == [i \in 1..Len(df.rows) |-> df.rows[i].cells[j]]

\* df[col] = a series of the given cells, with a dtype
SetColumn(df, j, cells, dtype) ==
    [cols |-> [df.cols EXCEPT ![j].dtype = dtype],
     rows |-> [i \in 1..Len(df.rows) |-> [df.rows[i] EXCEPT !.cells[j] = cells[i]]]]

\* the dtype pd.to_numeric gives the parsed cells of a column: a pyarrow
\* column stays a pyarrow column, a numpy column with a NaN is float64
ParsedDtype(dtype, cells) ==
    IF dtype \in PyArrowDtypes
    THEN IF \A i \in 1..Len(cells) : cells[i].k \in {"int", "null"} THEN "int64[pyarrow]"
         ELSE "double[pyarrow]"
    ELSE IF \A i \in 1..Len(cells) : cells[i].k = "int" THEN "int64"
    ELSE "float64"

\* the non-null runs of a series
Present(series) == {i \in 1..Len(series) : ~IsNull(series[i].v)}

\* the k-th smallest value of the non-null values of a series
KthSmallest(series, k) ==
    LET atMost(i) == Sum([x \in 1..Len(series) |->
                        IF x \in Present(series) /\ NumLE(NumOf(series[x].v), NumOf(series[i].v))
                        THEN series[x].n ELSE 0])
        below(i) == Sum([x \in 1..Len(series) |->
                        IF x \in Present(series) /\ ~NumLE(NumOf(series[i].v), NumOf(series[x].v))
                        THEN series[x].n ELSE 0])
        at == CHOOSE i \in Present(series) : atMost(i) >= k /\ below(i) < k
    IN  NumOf(series[at].v)

\* the middle of two values
Midpoint(lo, hi) == Num(NumAdd(lo, hi)[1], 2 * NumAdd(lo, hi)[2])

\* series.median(): NaN when the series has no value
Median(series) ==
    LET count == SLen(series) - NaCount(series)
    IN  IF count = 0 THEN NullCell
        ELSE Midpoint(KthSmallest(series, (count + 1) \div 2),
                      KthSmallest(series, (count \div 2) + 1))

\* series.mean(): NaN when the series has no value
Mean(series) ==
    LET count == SLen(series) - NaCount(series)
        T[i \in 0..Len(series)] ==
            IF i = 0 THEN <<0, 1>>
            ELSE IF IsNull(series[i].v) THEN T[i - 1]
            ELSE LET v == NumOf(series[i].v)
                     t == NumAdd(T[i - 1], <<v[1] * series[i].n, v[2]>>)
                     g == GCD(Abs(t[1]), t[2])
                 IN  <<t[1] \div g, t[2] \div g>>
        total == T[Len(series)]
    IN  IF count = 0 THEN NullCell ELSE Num(total[1], total[2] * count)

\* series.ffill(): the last value seen before a null
FFill(df, j) ==
    LET last(i) == {x \in 1..(i - 1) : ~IsNull(df.rows[x].cells[j])}
        prev(i) == CHOOSE x \in last(i) : \A y \in last(i) : y <= x
    IN  [df EXCEPT !.rows = [i \in 1..Len(df.rows) |->
            IF IsNull(df.rows[i].cells[j]) /\ last(i) # {}
            THEN [df.rows[i] EXCEPT !.cells[j] = df.rows[prev(i)].cells[j]]
            ELSE df.rows[i]]]

\* series.fillna(value); filling with NaN changes nothing
FillNa(df, j, value) ==
    SetColumn(df, j,
              [i \in 1..Len(df.rows) |->
                 IF IsNull(df.rows[i].cells[j]) THEN value ELSE df.rows[i].cells[j]],
              df.cols[j].dtype)

\* CleanerConfig(): the defaults
DefaultCleanerConfig == [missing_numeric |-> "median", missing_text |-> "drop"]

\* what a step hands to audit.log
LogArgs(step, action, column, rows_affected) ==
    [step |-> step, action |-> action, column |-> column, rows_affected |-> rows_affected]

\* the coercion of the column at position j by its type
Coerce(df, j, col_type) ==
    LET dtype == df.cols[j].dtype
        old == CellsAt(df, j)
        cur == [i \in 1..Len(old) |-> CleanCurrency(old[i], dtype)]
        pct == [i \in 1..Len(old) |-> CleanPercentage(old[i], dtype)]
        num == [i \in 1..Len(old) |-> ToNumeric(old[i])]
        dat == [i \in 1..Len(old) |-> ToDatetime(old[i])]
    IN  CASE col_type = "currency" -> SetColumn(df, j, cur, ParsedDtype("object", cur))
          [] col_type = "percentage" -> SetColumn(df, j, pct, "float64")
          [] col_type = "date" -> SetColumn(df, j, dat, "datetime64[ns]")
          [] col_type = "numeric" ->
                IF IsNumericDtype(dtype) THEN df
                ELSE SetColumn(df, j, num, ParsedDtype(dtype, num))
          [] OTHER -> df

\* the audit.log call of a coercion
CoerceLogs(df, coerced, j, key, col_type) ==
    CASE col_type = "currency" ->
            << LogArgs("cleaner", "clean_currency", StrLabel(key),
                       NaCount(SeriesAt(df, j)) - NaCount(SeriesAt(coerced, j))) >>
      [] col_type = "percentage" ->
            << LogArgs("cleaner", "clean_percentage", StrLabel(key), NoCount) >>
      [] col_type = "date" ->
            << LogArgs("cleaner", "parse_date", StrLabel(key), NoCount) >>
      [] OTHER -> <<>>

\* the fill of the missing values of the column at position j
FillMissing(df, j, config) ==
    IF IsNumericDtype(df.cols[j].dtype)
    THEN CASE config.missing_numeric = "mean" -> FillNa(df, j, Mean(SeriesAt(df, j)))
           [] config.missing_numeric = "median" -> FillNa(df, j, Median(SeriesAt(df, j)))
           [] config.missing_numeric = "zero" -> FillNa(df, j, IntCell(0))
           [] OTHER -> df
    ELSE CASE config.missing_text = "ffill" -> FFill(df, j)
           [] config.missing_text = "none" -> FillNa(df, j, StrCell(<<>>))
           [] OTHER -> df

\* the frame and the log calls after the coercion of a column
Coerced(df, coerced, j, key, col_type, config) ==
    [df |-> FillMissing(coerced, j, config),
     logs |-> CoerceLogs(df, coerced, j, key, col_type)]

\* one round of the loop over type_info: coercion of the column df_out[key]
\* by its type, then the fill of its missing values
CleanColumn(df, j, key, col_type, config) ==
    Coerced(df, Coerce(df, j, col_type), j, key, col_type, config)

RECURSIVE CleanFrom(_, _, _, _, _)
RECURSIVE CleanNext(_, _, _, _, _)
\* the loop over type_info.items(); df_out[key] raises KeyError when no
\* column carries the key, a string, as its label
CleanFrom(df, type_info, i, config, logs) ==
    IF i > Len(type_info) THEN [raised |-> FALSE, df |-> df, logs |-> logs]
    ELSE IF Positions(df, StrLabel(type_info[i].key)) = {}
         THEN [raised |-> TRUE, df |-> df, logs |-> logs]
    ELSE CleanNext(CleanColumn(df, ColIndex(df, StrLabel(type_info[i].key)),
                               type_info[i].key, type_info[i].val.column_type, config),
                   type_info, i, config, logs)

CleanNext(c, type_info, i, config, logs) ==
    CleanFrom(c.df, type_info, i + 1, config, logs \o c.logs)

\* df.dropna(how="all"): the rows with a value in some cell
DropNa_OnlyEmptyRows(df) ==
    [df EXCEPT !.rows = Filter(df.rows,
        {i \in 1..Len(df.rows) : \E j \in 1..Len(df.cols) : ~IsNull(df.rows[i].cells[j])})]

\* df.dropna(): the rows without a null cell
DropNa(df) ==
    [df EXCEPT !.rows = Filter(df.rows,
        {i \in 1..Len(df.rows) : \A j \in 1..Len(df.cols) : ~IsNull(df.rows[i].cells[j])})]

\* the final pass: rows are dropped when a strategy is drop
DropPass(c, config) ==
    IF ~c.raised /\ (config.missing_numeric = "drop" \/ config.missing_text = "drop")
    THEN [raised |-> FALSE, df |-> DropNa(c.df),
          logs |-> Append(c.logs, LogArgs("cleaner", "drop_na_rows", NoColumn,
                                          NRows(c.df) - NRows(DropNa(c.df))))]
    ELSE c

\* clean_dataframe after the inference of the types
CleanTyped(type_info, df, config) ==
    IF type_info.raised THEN [raised |-> TRUE, df |-> df, logs |-> <<>>]
    ELSE DropPass(CleanFrom(df, type_info.info, 1, config, <<>>), config)

\* clean_dataframe(df, config, audit): the cleaned frame and the entries
\* logged, or the exception that ended it
CleanDataframe(df, config) == CleanTyped(Infer(df), df, config)

----------------------------------------------------------------------------
(* Profiler and Pipeline._run                                              *)

\* profile_dataframe in builtin mode: the row count of basic_stats and the
\* name and dtype of each entry of columns
Profile(df) ==
    [rows |-> NRows(df),
     columns |-> [j \in 1..Len(df.cols) |->
                    [name |-> df.cols[j].name, dtype |-> df.cols[j].dtype]]]

Pad2(n) == IF n < 10 THEN <<"0">> \o NatToStr(n) ELSE NatToStr(n)

\* str(timestamp.date())
DateStr(t) ==
    IF t[1] = "ymd" THEN NatToStr(t[2]) \o <<"-">> \o Pad2(t[3]) \o <<"-">> \o Pad2(t[4])
    ELSE IF t[2] >= 0 THEN <<"1", "9", "7", "0", "-", "0", "1", "-", "0", "1">>
    ELSE <<"1", "9", "6", "9", "-", "1", "2", "-", "3", "1">>

\* rec.get(key): the cell of the column labelled by the string, else None
RecGet(df, row, key) ==
    IF Positions(df, key) = {} THEN [cell |-> NullCell, dtype |-> "none"]
    ELSE [cell |-> row.cells[ColIndex(df, key)], dtype |-> df.cols[ColIndex(df, key)].dtype]

\* the period of a LongRow: a string, or None when the record has no period
PeriodOf(g) ==
    CASE g.dtype = "none" -> NullCell
      [] g.cell.k = "str" -> g.cell
      [] g.cell.k = "ts" -> StrCell(DateStr(g.cell.v))
      [] g.cell.k = "null" /\ g.dtype = "datetime64[ns]" -> StrCell(<<"N", "a", "T">>)
      [] OTHER -> StrCell(AsStr(g.cell, g.dtype))

\* float(value) raises on a Timestamp, on pd.NA and on a string that is
\* not a number
ValueRaises(g) ==
    /\ g.dtype # "none"
    /\ \/ g.cell.k = "ts"
       \/ g.cell.k = "str" /\ ~IsNumberStr(Strip(g.cell.v))
       \/ g.cell.k = "null" /\ g.dtype \in PyArrowDtypes

\* the value of a LongRow: float(value), or None when the record has none
ValueOf(g) ==
    IF g.dtype = "none" THEN NullCell
    ELSE IF g.cell.k = "str" THEN NumberCell(Strip(g.cell.v))
    ELSE g.cell

\* the columns that go to extras
ExtraColumns(df) ==
    {j \in 1..Len(df.cols) :
        df.cols[j].name # L_metric /\ df.cols[j].name # L_period /\ df.cols[j].name # L_value}

\* LongRow(**record) for the rows of one run of the cleaned frame
LongRow(df, row) ==
    [metric |-> RecGet(df, row, L_metric).cell,
     period |-> PeriodOf(RecGet(df, row, L_period)),
     value |-> ValueOf(RecGet(df, row, L_value)),
     extras |-> Filter([j \in 1..Len(df.cols) |->
                           [key |-> df.cols[j].name, val |-> row.cells[j]]],
                       ExtraColumns(df)),
     n |-> row.n]

\* building clean_records raises when float(value) does, and validation of
\* the PipelineResult when a key of extras is not a string
RecordsRaise(df) ==
    \/ \E i \in 1..Len(df.rows) : ValueRaises(RecGet(df, df.rows[i], L_value))
    \/ /\ Len(df.rows) > 0
       /\ \E j \in ExtraColumns(df) : df.cols[j].name.k # "str"

Records(df) == [i \in 1..Len(df.rows) |-> LongRow(df, df.rows[i])]

\* PipelineConfig(): the defaults, which are those of the upload service
PipelineConfig ==
    [reader |-> [max_size_mb |-> 50],
     cleaner |-> DefaultCleanerConfig,
     profiler |-> [mode |-> "builtin"]]

\* the exception that ends a round of the loop of _run, with what was
\* logged before it
Failed(error, logs) ==
    [raised |-> TRUE, error |-> error, logs |-> logs,
     clean_data |-> <<>>, profile |-> Profile(EmptyFrame)]

\* profile, clean_records and the fields of the PipelineResult
Assemble(df_clean, logs) ==
    IF RecordsRaise(df_clean) THEN Failed("records", logs)
    ELSE [raised |-> FALSE, error |-> "none", logs |-> logs,
          clean_data |-> Records(df_clean), profile |-> Profile(df_clean)]

\* the round after clean_dataframe
AfterClean(clean, logs) ==
    IF clean.raised THEN Failed("clean", logs \o clean.logs)
    ELSE Assemble(clean.df,
             Append(logs \o clean.logs,
                    LogArgs("profiler", "builtin_profile", NoColumn, NRows(clean.df))))

\* the round after to_long
AfterToLong(long, config, logs) ==
    IF long.raised THEN Failed("to_long", logs)
    ELSE AfterClean(CleanDataframe(long.df, config.cleaner),
             Append(logs, LogArgs("normaliser", long.action, NoColumn, NRows(long.df))))

\* the round after detect_layout
AfterDetect(layout, df, config) ==
    AfterToLong(ToLong(df, IdentifyMetricPeriod(df, layout)), config,
        << LogArgs("type_inferencer", "infer", NoColumn, NRows(df)),
           LogArgs("layout", "detect", NoColumn, NoCount) >>)

\* the round after TypeInferencer.infer
AfterInfer(type_info, df, config) ==
    IF type_info.raised THEN Failed("infer", <<>>)
    ELSE AfterDetect(DetectLayout(df), df, config)

\* one round of the loop of _run, without the audit objects: the exception
\* that ends it or the fields of the PipelineResult, and what was logged
ProcessSheet(df, config) == AfterInfer(Infer(df), df, config)

\* audit.log for each of a sequence of calls
LogAll(heap, ref, calls, clock) ==
    LET H[i \in 0..Len(calls)] ==
            IF i = 0 THEN heap
            ELSE Log(H[i - 1], ref, calls[i].step, calls[i].action, calls[i].column,
                     calls[i].rows_affected, clock)
    IN  H[Len(calls)]

\* PipelineResult(sheet, meta, clean_data, profile, audit=audit.to_trail())
\* and results.append(result)
Appended(t, p, sheet) ==
    [raised |-> FALSE, error |-> "none", heap |-> t.heap,
     results |-> << [sheet |-> sheet.name, meta |-> sheet.meta,
                     clean_data |-> p.clean_data, profile |-> p.profile,
                     audit |-> t.trail] >>]

\* a round that goes on to the next sheet when the sheet raised
EndOfRound_SkipsFailedSheet(heap, ref, p, sheet) ==
    IF p.raised
    THEN [raised |-> FALSE, error |-> "none", heap |-> heap, results |-> <<>>]
    ELSE Appended(ToTrail(heap, ref), p, sheet)

\* the end of a round: the exception leaves _run, or the result is appended
EndOfRound(heap, ref, p, sheet) ==
    IF p.raised
    THEN [raised |-> TRUE, error |-> p.error, heap |-> heap, results |-> <<>>]
    ELSE Appended(ToTrail(heap, ref), p, sheet)

\* the round with its audit logger
Audited(audit, p, sheet, clock) ==
    EndOfRound(LogAll(audit.heap, audit.ref, p.logs, clock), audit.ref, p, sheet)

\* one round of the loop of _run on the sheet (sheet_name, df, meta): a new
\* AuditLogger, the steps, and the PipelineResult with the logger's trail
RunSheet(heap, sheet, config, clock) ==
    Audited(NewLogger(heap), ProcessSheet(sheet.df, config), sheet, clock)

\* SheetMeta(source_path, sheet, nrows, ncols)
SheetMeta(source_path, sheet, df) ==
    [source_path |-> source_path, sheet |-> sheet, nrows |-> NRows(df), ncols |-> NCols(df)]

----------------------------------------------------------------------------
(* Readers, ChunkedProcessor and the upload service                        *)

CHUNK_SIZE == 1024 * 1024

N_data == <<"d", "a", "t", "a">>
N_chunked_data == <<"c", "h", "u", "n", "k", "e", "d", "_", "d", "a", "t", "a">>
MemoryPath == <<"m", "e", "m", "o", "r", "y">>
\* the temporary file the service writes the upload to, and its stem
TempPath == <<"t", "m", "p">>
FileStem == <<"t", "m", "p">>

\* f"chunk_{k}"
ChunkName(k) == <<"c", "h", "u", "n", "k", "_">> \o NatToStr(k)

\* the DataFrame a reader makes of a sheet of the file: the header gives
\* the labels, the values of a column its dtype
ReadSheet(sheet, backend) ==
    [cols |-> [j \in 1..Len(sheet.header) |->
                 [name |-> sheet.header[j],
                  dtype |-> ReadDtype([i \in 1..Len(sheet.rows) |-> sheet.rows[i].cells[j]],
                                      backend)]],
     rows |-> sheet.rows]

\* a DataSheet (sheet_name, df, meta)
DataSheet(name, df, source_path, meta_sheet) ==
    [name |-> name, df |-> df, meta |-> SheetMeta(source_path, meta_sheet, df)]

\* the constructor of the reader of a file raises: ExcelReader.__init__
\* tests the size of the file, CSVReader.__init__ does not
ReaderRaises(f, config) ==
    \/ f.kind = "xlsx" /\ f.size > config.reader.max_size_mb * 1048576
    \/ f.kind = "csv" /\ ~f.utf8

\* ExcelReader.read / CSVReader.read
ReaderRead(f) ==
    IF f.kind = "xlsx"
    THEN [i \in 1..Len(f.sheets) |->
            DataSheet(f.sheets[i].name, ReadSheet(f.sheets[i], "pyarrow"),
                      TempPath, f.sheets[i].name)]
    ELSE << DataSheet(FileStem, ReadSheet(f.sheets[1], "pyarrow"), TempPath, FileStem) >>

Min(a, b) == IF a < b THEN a ELSE b
Max(a, b) == IF a < b THEN b ELSE a

\* df.iloc[lo:hi] on the runs of rows
SliceRows(rows, lo, hi) ==
    LET before(i) == Sum([x \in 1..(i - 1) |-> rows[x].n])
        take(i) == Min(before(i) + rows[i].n, hi) - Max(before(i), lo)
    IN  Filter([i \in 1..Len(rows) |-> [rows[i] EXCEPT !.n = take(i)]],
               {i \in 1..Len(rows) : take(i) > 0})

\* chunk_size_rows
ChunkRows(df) == Max(1, CHUNK_SIZE \div (NCols(df) * 8))

\* the sheets process_large_dataframe hands to _run, one call each: the
\* whole frame when it is small, else its chunks
ChunkSheets(df) ==
    IF NRows(df) * NCols(df) * 8 < CHUNK_SIZE
    THEN << DataSheet(N_data, df, MemoryPath, N_chunked_data) >>
    ELSE [k \in 1..((NRows(df) + ChunkRows(df) - 1) \div ChunkRows(df)) |->
            DataSheet(ChunkName(k),
                      [df EXCEPT !.rows = SliceRows(df.rows, (k - 1) * ChunkRows(df),
                                                    k * ChunkRows(df))],
                      MemoryPath, ChunkName(k))]

RECURSIVE RunEach(_, _, _, _, _, _)
RECURSIVE RunRest(_, _, _, _, _, _)
\* the calls of _run, from the k-th sheet on: an exception ends them
RunEach(heap, sheets, k, config, clock, acc) ==
    IF k > Len(sheets)
    THEN [raised |-> FALSE, error |-> "none", heap |-> heap, results |-> acc]
    ELSE RunRest(RunSheet(heap, sheets[k], config, clock), sheets, k, config, clock, acc)

RunRest(r, sheets, k, config, clock, acc) ==
    IF r.raised THEN r
    ELSE RunEach(r.heap, sheets, k + 1, config, clock, acc \o r.results)

\* ChunkedProcessor.process_large_dataframe
ProcessLargeDataframe(heap, df, config, clock) ==
    RunEach(heap, ChunkSheets(df), 1, config, clock, <<>>)

\* the results of a sheet under the sheet's name
Renamed(rs, name) ==
    [i \in 1..Len(rs) |-> [rs[i] EXCEPT !.sheet = name, !.meta.sheet = name]]

\* result.audit.entries.append(self._create_error_audit_entry(errors)) for
\* every result
AppendErrors(heap, rs, errs, clock) ==
    LET H[i \in 0..Len(rs)] ==
            IF i = 0 THEN heap
            ELSE ListAppend(H[i - 1], rs[i].audit.entries,
                     CreateErrorAuditEntry(H[i - 1], rs[i].audit.entries, errs, clock))
    IN  H[Len(rs)]

----------------------------------------------------------------------------
(* Inputs of the upload specification: files and their sheets              *)

S_TotalAssets == <<"T", "o", "t", "a", "l", " ", "A", "s", "s", "e", "t", "s">>
L_col1 == StrLabel(<<"c", "o", "l", "1">>)
L_col2 == StrLabel(<<"c", "o", "l", "2">>)

Row(cells) == [cells |-> cells, n |-> 1]

\* the smallest number of rows of a one-column sheet that makes two chunks
BigRows == (CHUNK_SIZE \div 8) + 1

\* Item, 2023, 2024 / Total Assets, 1000, 1200
T_Wide ==
    [header |-> <<L_Item, L_2023, L_2024>>,
     rows |-> << Row(<<StrCell(S_TotalAssets), IntCell(1000), IntCell(1200)>>) >>]

\* the same sheet of a workbook whose header cells hold numbers
T_WideIntYears ==
    [header |-> <<L_Item, IntLabel(2023), IntLabel(2024)>>,
     rows |-> << Row(<<StrCell(S_TotalAssets), IntCell(1000), IntCell(1200)>>) >>]

\* a wide sheet whose values all lie in [1900, 2100]
T_WideYears ==
    [header |-> <<L_Item, L_2023, L_2024>>,
     rows |-> << Row(<<StrCell(S_abc), IntCell(1950), IntCell(2024)>>),
                 Row(<<StrCell(S_xyz), IntCell(2024), IntCell(1950)>>) >>]

T_Text ==
    [header |-> <<L_Item, L_Code>>,
     rows |-> << Row(<<StrCell(S_abc), StrCell(S_xyz)>>) >>]

\* a sheet whose header row holds a name and one year typed as a number
T_ItemIntYear ==
    [header |-> <<L_Item, IntLabel(2023)>>,
     rows |-> << Row(<<StrCell(S_abc), IntCell(7)>>) >>]

T_Long ==
    [header |-> <<L_Date, L_Item, L_Amount>>,
     rows |-> << Row(<<StrCell(S_date), StrCell(S_abc), IntCell(7)>>),
                 Row(<<StrCell(S_date), StrCell(S_xyz), NullCell>>) >>]

\* col1,col2 / 1,2 / 3,4
T_Numbers ==
    [header |-> <<L_col1, L_col2>>,
     rows |-> << Row(<<IntCell(1), IntCell(2)>>), Row(<<IntCell(3), IntCell(4)>>) >>]

\* one column of BigRows equal values
T_Big ==
    [header |-> <<L_Item>>,
     rows |-> << [cells |-> <<StrCell(S_abc)>>, n |-> BigRows] >>]

CsvTables == {T_Wide, T_WideYears, T_Text, T_Long, T_Numbers, T_Big}
ExcelTables == CsvTables \cup {T_WideIntYears, T_ItemIntYear}

\* xls.sheet_names of a workbook made by position
SheetName(i) == <<"S", "h", "e", "e", "t">> \o NatToStr(i)

Named(t, name) == [name |-> name, header |-> t.header, rows |-> t.rows]

SizeLimit == PipelineConfig.reader.max_size_mb * 1048576

\* the size of a file is not a function of its table: blank lines, styles
\* and embedded objects add bytes and no cell
FileSizes == {1024, SizeLimit, SizeLimit + 1}

\* the files of at most n sheets
Files(n) ==
    {[kind |-> "csv", size |-> z, utf8 |-> TRUE, sheets |-> << Named(t, FileStem) >>] :
        z \in FileSizes, t \in CsvTables}
    \cup UNION { {[kind |-> "xlsx", size |-> z, utf8 |-> TRUE,
                   sheets |-> [i \in 1..k |-> Named(w[i], SheetName(i))]] :
                    z \in FileSizes, w \in [1..k -> ExcelTables]} : k \in 1..n }

\* a CSV file whose bytes are not valid UTF-8 (written in latin-1, with a
\* letter outside ASCII) and a file with an extension that is neither .csv
\* nor .xlsx / .xls
OddFiles ==
    {[kind |-> "csv", size |-> 1024, utf8 |-> FALSE, sheets |-> << Named(T_Text, FileStem) >>],
     [kind |-> "txt", size |-> 1024, utf8 |-> TRUE, sheets |-> << Named(T_Text, FileStem) >>]}

----------------------------------------------------------------------------
(* SessionManager: the dict of one session                                 *)

\* pd.DataFrame(result.clean_data)
RecordsFrame(clean_data) == [kind |-> "records", records |-> clean_data, frame |-> EmptyFrame]

\* a frame read by pandas, stored as it is
RawFrame(df) == [kind |-> "frame", records |-> <<>>, frame |-> df]

\* the metadata dict made of the profile of a result
ProfileMeta(profile) ==
    [kind |-> "profile", rows |-> profile.rows, columns |-> profile.columns]

\* the profile dict of run_simplified_fallback
BasicMeta(df) ==
    [kind |-> "basic", rows |-> NRows(df),
     columns |-> [j \in 1..Len(df.cols) |-> df.cols[j].name]]

\* create_session: the new dict replaces what was under the session id
CreateSession ==
    [exists |-> TRUE, data |-> NoData, metadata |-> NoMeta,
     pipeline_results |-> <<>>, current_sheet |-> NoSheet]

\* update_session_data and update_session_metadata
UpdateSessionData(s, data) ==
    IF s.exists THEN [s EXCEPT !.data = data] ELSE s

UpdateSessionMetadata(s, metadata) ==
    IF s.exists THEN [s EXCEPT !.metadata = metadata] ELSE s

\* store_pipeline_results: the results replace the stored ones; data,
\* metadata and current_sheet are set from results[0] when there is one
StorePipelineResults(s, results) ==
    IF ~s.exists THEN [session |-> s, ret |-> FALSE]
    ELSE [session |->
            IF results # <<>>
            THEN [s EXCEPT !.pipeline_results = results,
                           !.data = RecordsFrame(results[1].clean_data),
                           !.metadata = ProfileMeta(results[1].profile),
                           !.current_sheet = StrLabel(results[1].sheet)]
            ELSE [s EXCEPT !.pipeline_results = results],
          ret |-> TRUE]

\* the positions of the stored results of the sheet
Stored(s, sheet_name) ==
    {i \in 1..Len(s.pipeline_results) : s.pipeline_results[i].sheet = sheet_name}

\* set_current_sheet: the first stored result of that sheet becomes the
\* data of the session
SetCurrentSheet(s, sheet_name) ==
    IF ~s.exists \/ Stored(s, sheet_name) = {} THEN [session |-> s, ret |-> FALSE]
    ELSE LET result == s.pipeline_results[CHOOSE i \in Stored(s, sheet_name) :
                                            \A j \in Stored(s, sheet_name) : i <= j]
         IN  [session |-> [s EXCEPT !.data = RecordsFrame(result.clean_data),
                                    !.current_sheet = StrLabel(sheet_name),
                                    !.metadata = ProfileMeta(result.profile)],
              ret |-> TRUE]


\* the table of an upload that the session has seen before this one
T_Earlier ==
    [header |-> <<L_Item, L_Code>>,
     rows |-> << Row(<<StrCell(S_xyz), StrCell(S_abc)>>) >>]

\* the PipelineResult of the sheet when its round p has not raised
ResultOf(sheet, p) ==
    [sheet |-> sheet.name, meta |-> sheet.meta, clean_data |-> p.clean_data,
     profile |-> p.profile,
     audit |-> [pipeline_version |-> PIPELINE_VERSION, entries |-> 0]]

\* what run_from_csv returns for the table
CsvResults(t) ==
    << ResultOf(ReaderRead([NoFile EXCEPT !.kind = "csv",
                                          !.sheets = << Named(t, FileStem) >>])[1],
                ProcessSheet(ReadSheet(Named(t, FileStem), "pyarrow"), PipelineConfig)) >>

\* the session after the upload endpoint has created it and an earlier
\* upload has stored its results
UsedSession == StorePipelineResults(CreateSession, CsvResults(T_Earlier)).session

----------------------------------------------------------------------------
(* Specification of an upload: EnhancedDataProcessor.process_uploaded_file *)
(* on a file, through Pipeline.run_from_csv / run_from_excel and the       *)
(* service's recovery paths                                                *)

Init ==
    /\ pc = "start"
    /\ table = EmptyFrame /\ info = NoInfo /\ layoutInfo = NoLayout /\ longDf = NoLong
    /\ IdleAudit
    /\ file \in Files(MaxSheets) \cup OddFiles
    /\ run = NoRun
    /\ svc = NoSvc
    /\ session \in {CreateSession, UsedSession}
    /\ reply = NoReply
    /\ IdleSteps

\* the call run' of an entry point on the file, up to reader.read()
EnterRun(entry) ==
    IF ReaderRaises(file, PipelineConfig)
    THEN [NoRun EXCEPT !.entry = entry, !.status = "raised",
                       !.error = IF file.kind = "xlsx" THEN "size" ELSE "decode"]
    ELSE [NoRun EXCEPT !.entry = entry, !.status = "running", !.parsed = TRUE,
                       !.sheets = ReaderRead(file)]

\* process_uploaded_file: a file name that ends in none of .csv, .xlsx and
\* .xls raises DataProcessingError inside the try
Unsupported ==
    /\ pc = "start" /\ file.kind \notin {"csv", "xlsx"}
    /\ svc' = [svc EXCEPT !.outcome = "fallback"]
    /\ pc' = "done"
    /\ UNCHANGED <<fnVars, auditVars, file, run, stepVars, sessVars>>

\* _process_csv: pipeline.run_from_csv(temp_path)
RunFromCsv ==
    /\ pc = "start" /\ file.kind = "csv"
    /\ run' = EnterRun("csv")
    /\ pc' = IF run'.status = "raised" THEN "recover" ELSE "run"
    /\ UNCHANGED <<fnVars, auditVars, file, svc, stepVars, sessVars>>

\* _process_excel: pipeline.run_from_excel(temp_path)
RunFromExcel ==
    /\ pc = "start" /\ file.kind = "xlsx"
    /\ run' = EnterRun("excel")
    /\ pc' = IF run'.status = "raised" THEN "recover" ELSE "run"
    /\ UNCHANGED <<fnVars, auditVars, file, svc, stepVars, sessVars>>

\* the effect of a round r of the loop of _run
RoundDone(r) ==
    /\ lists' = r.heap
    /\ run' = IF r.raised
              THEN [run EXCEPT !.status = "raised", !.error = r.error]
              ELSE [run EXCEPT !.next = @ + 1, !.results = @ \o r.results]
    /\ pc' = IF r.raised THEN "recover" ELSE "run"

\* one round of the loop of _run; an exception ends the call
RunSheetStep ==
    /\ pc = "run" /\ run.next <= Len(run.sheets)
    /\ RoundDone(RunSheet(lists, run.sheets[run.next], PipelineConfig, now))
    /\ UNCHANGED <<fnVars, now, logger, trails, file, svc, stepVars, sessVars>>

\* return results; the service keeps them
RunReturn ==
    /\ pc = "run" /\ run.next > Len(run.sheets)
    /\ run' = [run EXCEPT !.status = "returned"]
    /\ svc' = [svc EXCEPT !.results = run.results,
                          !.outcome = IF file.kind = "csv" THEN "ok" ELSE @]
    /\ pc' = IF file.kind = "csv" THEN "done" ELSE "finish"
    /\ UNCHANGED <<fnVars, auditVars, file, stepVars, sessVars>>

\* the effect of the chunked processing r of the CSV file
FallbackDone(r) ==
    /\ lists' = r.heap
    /\ svc' = [svc EXCEPT !.results = r.results,
                          !.outcome = IF r.raised THEN "fallback" ELSE "ok"]

\* _process_csv, except branch: pd.read_csv and the chunked processor; an
\* exception here leaves the pipeline for the basic fallback
CsvFallback ==
    /\ pc = "recover" /\ file.kind = "csv"
    /\ IF file.utf8
       THEN FallbackDone(ProcessLargeDataframe(lists, ReadSheet(file.sheets[1], "numpy"),
                                               PipelineConfig, now))
       ELSE lists' = lists /\ svc' = [svc EXCEPT !.outcome = "fallback"]
    /\ pc' = "done"
    /\ UNCHANGED <<fnVars, now, logger, trails, file, run, stepVars, sessVars>>

\* the effect of the processing r of one sheet of the workbook
SheetDone(name, r) ==
    /\ lists' = r.heap
    /\ svc' = IF r.raised
              THEN [svc EXCEPT !.next = @ + 1,
                               !.errors = Append(@, SheetError(name, r.error))]
              ELSE [svc EXCEPT !.next = @ + 1,
                               !.results = @ \o Renamed(r.results, name)]

\* _process_excel_sheets_individually: one round of the loop over the sheets
SheetIndividually ==
    /\ pc = "recover" /\ file.kind = "xlsx"
    /\ SheetDone(file.sheets[svc.next].name,
                 ProcessLargeDataframe(lists, ReadSheet(file.sheets[svc.next], "numpy"),
                                       PipelineConfig, now))
    /\ pc' = IF svc.next = Len(file.sheets) THEN "finish" ELSE "recover"
    /\ UNCHANGED <<fnVars, now, logger, trails, file, run, stepVars, sessVars>>

\* _process_excel, after the try: the error entry goes to the trail of every
\* successful result; without a successful result DataProcessingError is
\* raised, which leaves the pipeline for the basic fallback
ExcelFinish ==
    /\ pc = "finish"
    /\ lists' = IF svc.results # <<>> /\ svc.errors # <<>>
                THEN AppendErrors(lists, svc.results, svc.errors, now)
                ELSE lists
    /\ svc' = [svc EXCEPT !.outcome = IF svc.results # <<>> THEN "ok" ELSE "fallback"]
    /\ pc' = "done"
    /\ UNCHANGED <<fnVars, now, logger, trails, file, run, stepVars, sessVars>>

\* pd.read_csv(StringIO(file_content.decode("utf-8"))) / pd.read_excel of
\* the two fallbacks of the processor succeeds
DecodesAndReads(f) == f.kind = "xlsx" \/ (f.kind = "csv" /\ f.utf8)

\* process_uploaded_file, except branch: _basic_pipeline_fallback with the
\* legacy tools, which succeed or raise, then _fallback_processing; both
\* answer success without pipeline_results, and when pandas cannot read the
\* file DataProcessingError leaves process_uploaded_file
ProcessorFallback ==
    /\ pc = "done" /\ svc.outcome = "fallback"
    /\ \E tools_succeed \in BOOLEAN :
          svc' = [svc EXCEPT !.outcome =
                     IF ~DecodesAndReads(file) THEN "failed"
                     ELSE IF tools_succeed THEN "basic_enhanced" ELSE "basic"]
    /\ pc' = "answered"
    /\ UNCHANGED <<fnVars, auditVars, file, run, stepVars, sessVars>>

\* process_file_upload on a successful processing_result: the results, or
\* the default [] when the result has none, go to store_pipeline_results
StoreUpload ==
    /\ \/ pc = "done" /\ svc.outcome = "ok"
       \/ pc = "answered" /\ svc.outcome \in {"basic_enhanced", "basic"}
    /\ session' = StorePipelineResults(session,
                       IF svc.outcome = "ok" THEN svc.results ELSE <<>>).session
    /\ reply' = [NoReply EXCEPT !.call = "upload", !.success = TRUE]
    /\ pc' = "uploaded"
    /\ UNCHANGED <<fnVars, auditVars, file, run, svc, stepVars>>

\* _read_file_content_to_dataframe: CSV bytes are read as UTF-8 and then as
\* latin-1, a workbook by pd.read_excel; any other file gives None
CanRead(f) == f.kind \in {"csv", "xlsx"}

\* process_file_upload, except branch: run_simplified_fallback reads the
\* file; its frame and profile go to the session, or HTTPException(500)
SimplifiedFallback ==
    /\ pc = "answered" /\ svc.outcome = "failed"
    /\ session' = IF CanRead(file)
                  THEN UpdateSessionMetadata(
                           UpdateSessionData(session,
                               RawFrame(ReadSheet(file.sheets[1], "numpy"))),
                           BasicMeta(ReadSheet(file.sheets[1], "numpy")))
                  ELSE session
    /\ reply' = [NoReply EXCEPT !.call = "upload", !.success = CanRead(file)]
    /\ pc' = "uploaded"
    /\ UNCHANGED <<fnVars, auditVars, file, run, svc, stepVars>>

\* process_chat_message on the session after the upload: ValueError("No
\* data available. Please upload a file first.") when the data is None
ChatMessage ==
    /\ pc = "uploaded" /\ reply.success
    /\ reply' = [reply EXCEPT !.chat = IF session.data = NoData THEN "no_data" ELSE "ok"]
    /\ pc' = "chatted"
    /\ UNCHANGED <<fnVars, auditVars, file, run, svc, stepVars, session>>

Next ==
    \/ Unsupported \/ RunFromCsv \/ RunFromExcel \/ RunSheetStep \/ RunReturn
    \/ CsvFallback \/ SheetIndividually \/ ExcelFinish
    \/ ProcessorFallback \/ StoreUpload \/ SimplifiedFallback \/ ChatMessage

Spec == Init /\ [][Next]_vars

----------------------------------------------------------------------------
(* Properties of the upload specification                                  *)

\* C1: when run_from_excel / _run returns, it returns exactly one
\* PipelineResult per sheet the reader returned, in the reader's order, the
\* i-th result carrying the name and the meta of the i-th sheet; what
\* run_from_csv returns has length exactly 1.
C1_OneResultPerSheet ==
    run.status = "returned" =>
        /\ Len(run.results) = Len(run.sheets)
        /\ \A i \in 1..Len(run.results) :
              /\ run.results[i].sheet = run.sheets[i].name
              /\ run.results[i].meta = run.sheets[i].meta
        /\ run.entry = "csv" => Len(run.results) = 1

\* run_from_excel has returned the results of a workbook of two sheets or more
C1_Witness ==
    /\ run.status = "returned" /\ run.entry = "excel"
    /\ Len(run.sheets) >= 2
    /\ run.results[1].sheet # run.results[2].sheet

\* a wide table as the claim describes it: a label column of text, then
\* columns named by years that hold numbers in every row
WideTable(t) ==
    /\ Len(t.header) >= 2 /\ Len(t.rows) >= 1
    /\ t.header[1].k = "str" /\ ~LooksLikePeriod(t.header[1])
    /\ \A j \in 2..Len(t.header) : t.header[j].k = "str" /\ LooksLikePeriod(t.header[j])
    /\ \A i \in 1..Len(t.rows) :
          /\ t.rows[i].cells[1].k = "str"
          /\ \A j \in 2..Len(t.header) : t.rows[i].cells[j].k = "int"

\* the LongRow of the i-th row and the j-th column of a wide table
WideLongRow(t, i, j) ==
    [metric |-> t.rows[i].cells[1], period |-> StrCell(t.header[j].v),
     value |-> t.rows[i].cells[j], extras |-> <<>>, n |-> t.rows[i].n]

\* C3: for a wide table with one label column, k year-named columns and n
\* rows the pipeline with the default config yields exactly n*k LongRows, one
\* per row and period column: metric the label of the row, period the name
\* of the column as a string, value the number of the cell, extras empty.
C3_WideYieldsRowPerPeriod ==
    \A i \in 1..Len(run.sheets) :
        WideTable(file.sheets[i]) =>
            /\ ~(run.status = "raised" /\ run.next = i)
            /\ i <= Len(run.results) =>
                  /\ Len(run.results[i].clean_data)
                        = Len(file.sheets[i].rows) * (Len(file.sheets[i].header) - 1)
                  /\ \A r \in 1..Len(file.sheets[i].rows) :
                       \A j \in 2..Len(file.sheets[i].header) :
                          \E x \in 1..Len(run.results[i].clean_data) :
                             run.results[i].clean_data[x] = WideLongRow(file.sheets[i], r, j)

\* C4: for the CSV and for the Excel entry point, a run on a file larger than
\* ReaderConfig.max_size_mb fails with the size-limit error before anything
\* is parsed, and produces no PipelineResult.
C4_OversizeFailsBeforeParsing ==
    (run.status # "idle" /\ file.size > SizeLimit) =>
        /\ run.status = "raised" /\ run.error = "size"
        /\ ~run.parsed
        /\ run.results = <<>>

\* the names of the sheets of the workbook that processing_errors names
FailedSheets == {svc.errors[i].sheet : i \in 1..Len(svc.errors)}

\* the names of the other sheets, in the order of the workbook
SuccessfulSheets ==
    LET names == [i \in 1..Len(file.sheets) |-> file.sheets[i].name]
    IN  Filter(names, {i \in 1..Len(names) : names[i] \notin FailedSheets})

\* C5: when a sheet of a workbook of several sheets fails, the caller still
\* receives the results of the other sheets, one result per successful sheet
\* in the order of the workbook, with a record that names each failed sheet.
C5_PartialResultsWithFailures ==
    (/\ pc = "done" /\ file.kind = "xlsx" /\ Len(file.sheets) >= 2
     /\ svc.errors # <<>> /\ svc.outcome = "ok") =>
        /\ [i \in 1..Len(svc.results) |-> svc.results[i].sheet] = SuccessfulSheets
        /\ \A i \in 1..Len(svc.results) :
              LET l == lists[svc.results[i].audit.entries]
              IN  /\ l[Len(l)].step = "error_recovery"
                  /\ l[Len(l)].details = svc.errors

\* the lists of the trails of the PipelineResults assembled so far
ClosedTrails ==
    {run.results[i].audit.entries : i \in 1..Len(run.results)}
    \cup {svc.results[i].audit.entries : i \in 1..Len(svc.results)}

\* C7: once a PipelineResult has been assembled no step of the program, the
\* Excel error recovery of the upload service included, adds, removes,
\* reorders or changes an entry of the audit trail of that result.
C7_ClosedTrailIsImmutable ==
    [][\A r \in ClosedTrails : lists'[r] = lists[r]]_vars

\* the frames that can be made of the file of this upload: of the first
\* result of its processing, or of the file as pandas reads it
DataOfUpload ==
    {RawFrame(ReadSheet(file.sheets[1], "numpy"))}
    \cup (IF svc.results # <<>> THEN {RecordsFrame(svc.results[1].clean_data)} ELSE {})

C27_CleaningFailureIsIsolated ==
    ~(run.status = "raised" /\ run.error = "clean")

\* the entries follow the steps of a round: one type_inferencer/infer entry,
\* one layout/detect entry, one normaliser entry, the entries of the
\* cleaner, then the entries of the profiler, and nothing else
InStepOrder(l) ==
    /\ Len(l) >= 4
    /\ l[1].step = "type_inferencer" /\ l[1].action = "infer"
    /\ l[2].step = "layout" /\ l[2].action = "detect"
    /\ l[3].step = "normaliser"
    /\ l[Len(l)].step = "profiler"
    /\ \E k \in 3..(Len(l) - 1) :
          /\ \A i \in 4..k : l[i].step = "cleaner"
          /\ \A i \in (k + 1)..Len(l) : l[i].step = "profiler"

\* the entries are what the steps of the round on the sheet log, one for
\* one: the same steps, actions, columns and row counts
LoggedByOwnRun(l, sheet) ==
    [i \in 1..Len(l) |->
        LogArgs(l[i].step, l[i].action, l[i].column, l[i].rows_affected)]
        = ProcessSheet(sheet.df, PipelineConfig).logs

\* C25: the audit trail of every PipelineResult that _run assembles holds
\* the entries of the round of its own sheet and no entry of another round,
\* in the order of the steps: one type_inferencer/infer entry, one
\* layout/detect entry, one normaliser entry, the cleaner's entries and the
\* profiler's entries last.
C25_TrailOfOwnRunInStepOrder ==
    run.status \in {"running", "returned"} =>
        \A i \in 1..Len(run.results) :
            /\ InStepOrder(lists[run.results[i].audit.entries])
            /\ LoggedByOwnRun(lists[run.results[i].audit.entries], run.sheets[i])

\* a workbook of two sheets of different row counts, both assembled
C25_Witness ==
    /\ pc = "run" /\ run.status = "running" /\ Len(run.results) = 2
    /\ run.results[1].sheet # run.results[2].sheet
    /\ lists[run.results[1].audit.entries][1].rows_affected
           # lists[run.results[2].audit.entries][1].rows_affected
    /\ \E i \in 1..Len(lists[run.results[2].audit.entries]) :
           lists[run.results[2].audit.entries][i].step = "cleaner"

----------------------------------------------------------------------------
(* Specification of two runs of the pipeline on one input: each run draws  *)
(* its own sample in detect_layout                                         *)

DateRows == 30

\* 30 rows with a date and 101 rows without: more than a fifth of the rows
\* hold a date, and a sample of 100 rows can hold none
T_Sampled ==
    [header |-> <<L_Date, L_Item>>,
     rows |-> << [cells |-> <<StrCell(S_date), StrCell(S_abc)>>, n |-> DateRows],
                 [cells |-> <<StrCell(S_abc), StrCell(S_xyz)>>, n |-> SAMPLE_ROWS + 1] >>]

RerunTables ==
    {ReadSheet(t, b) : t \in {T_Sampled, T_Big, T_Wide, T_Long, T_Text}, b \in Backends}

\* one round of _run on df when detect_layout draws the sample
RunWithSample(df, config, sample) ==
    IF Infer(df).raised THEN Failed("infer", <<>>)
    ELSE AfterDetect(DetectLayoutFrom(df, sample), df, config)

InitRerun ==
    /\ pc = "start"
    /\ table \in RerunTables
    /\ info = NoInfo /\ layoutInfo = NoLayout /\ longDf = NoLong
    /\ IdleAudit /\ IdleService
    /\ conf = PipelineConfig
    /\ cleaned = [raised |-> FALSE, df |-> EmptyFrame, logs |-> <<>>]
    /\ profiled = [raised |-> FALSE, logs |-> <<>>]
    /\ engine = "none"
    /\ reruns = <<>>

\* a run of the pipeline on the table, with the sample this run draws
RunPipeline ==
    /\ pc = "start"
    /\ \E s \in Samples(table) :
          reruns' = Append(reruns, [taken |-> [i \in 1..Len(s.rows) |-> s.rows[i].n],
                                    outcome |-> RunWithSample(table, conf, s)])
    /\ pc' = IF Len(reruns) = 1 THEN "done" ELSE "start"
    /\ UNCHANGED <<fnVars, auditVars, svcVars, conf, cleaned, profiled, engine>>

NextRerun == RunPipeline

SpecRerun == InitRerun /\ [][NextRerun]_vars

\* C11: two runs of the pipeline on the same input with the same config give
\* the same clean_data and the same profile (or fail alike), whatever rows
\* detect_layout samples of a table of more than 100 rows.
C11_RunsAgree ==
    pc = "done" =>
        /\ reruns[1].outcome.raised = reruns[2].outcome.raised
        /\ reruns[1].outcome.clean_data = reruns[2].outcome.clean_data
        /\ reruns[1].outcome.profile = reruns[2].outcome.profile

\* two runs that returned rows of a table of more than 100 rows, one with a
\* sample that holds no date and one with a sample that holds them all
C11_Witness ==
    /\ pc = "done"
    /\ NRows(table) > SAMPLE_ROWS
    /\ reruns[1].taken[1] = 0 /\ reruns[2].taken[1] = DateRows
    /\ ~reruns[1].outcome.raised
    /\ reruns[1].outcome.clean_data # <<>>

----------------------------------------------------------------------------
(* Specification of clean_dataframe as a function of the frame and the     *)
(* CleanerConfig                                                           *)

MaxCleanRows == 3

L_Price == StrLabel(<<"P", "r", "i", "c", "e">>)
L_Rate == StrLabel(<<"R", "a", "t", "e">>)

\* "$1,200.50", "($500)" and "$(500)"
S_price == <<"$", "1", ",", "2", "0", "0", ".", "5", "0">>
S_loss == <<"(", "$", "5", "0", "0", ")">>
S_loss2 == <<"$", "(", "5", "0", "0", ")">>

PriceDom == {StrCell(S_price), StrCell(S_loss), StrCell(S_loss2), StrCell(S_abc)}
RateDom == {StrCell(S_pct), StrCell(S_abc)}
\* with at most two values of {10, 30} the mean and the median of a column
\* are whole numbers
AmountDom == {IntCell(10), IntCell(30), NullCell}

CleanHeaders ==
    { <<HC(L_Price, PriceDom)>>,
      <<HC(L_Rate, RateDom)>>,
      <<HC(L_Amount, AmountDom)>>,
      <<HC(L_Item, TextNullDom), HC(L_Amount, {IntCell(10), NullCell})>> }

CleanTables(n) ==
    UNION { {Frame(h, rows, b) : rows \in SeqsUpTo(RowsOf(h), n), b \in Backends}
            : h \in CleanHeaders }

\* the strategies that select a branch of the cleaner; on a numeric column
\* "none" selects none
CleanerConfigs ==
    {[missing_numeric |-> a, missing_text |-> b] :
        a \in {"mean", "median", "zero", "drop", "none"}, b \in {"drop", "ffill", "none"}}

InitClean ==
    /\ pc = "start"
    /\ table \in CleanTables(MaxCleanRows)
    /\ info = NoInfo /\ layoutInfo = NoLayout /\ longDf = NoLong
    /\ IdleAudit /\ IdleService
    /\ conf \in CleanerConfigs
    /\ cleaned = [raised |-> FALSE, df |-> EmptyFrame, logs |-> <<>>]
    /\ profiled = [raised |-> FALSE, logs |-> <<>>]
    /\ engine = "none"
    /\ reruns = <<>>

\* df_clean = clean_dataframe(df_long, config.cleaner, audit)
CleanStep ==
    /\ pc = "start"
    /\ cleaned' = CleanDataframe(table, conf)
    /\ pc' = "done"
    /\ UNCHANGED <<fnVars, auditVars, svcVars, conf, profiled, engine, reruns>>

NextClean == CleanStep

SpecClean == InitClean /\ [][NextClean]_vars

\* the cleaner neither fills nor drops
NoFillNoDrop == conf.missing_numeric = "none" /\ conf.missing_text \in {"ffill", "none"}

\* the position of the column of a one-column table the inferencer types t
TypedColumn(t) ==
    /\ Len(table.cols) = 1
    /\ ~Infer(table).raised
    /\ Infer(table).info[1].val.column_type = t

\* the values the claim gives: "$1,200.50" is 1200.50, "($500)" and
\* "$(500)" are -500, "25%" is 0.25, and text that is no number is null
CleanedValue(c) ==
    CASE c = StrCell(S_price) -> FloatCell(2401, 2)
      [] c \in {StrCell(S_loss), StrCell(S_loss2)} -> IntCell(-500)
      [] c = StrCell(S_pct) -> FloatCell(1, 4)
      [] OTHER -> NullCell

\* C12: the cleaner turns the formatted values of a currency-typed or of a
\* percentage-typed column into their numeric value: symbols and thousands
\* separators are stripped, (X) becomes -X, N% becomes N/100, and a value
\* that cannot be parsed becomes null.
C12_FormattedValuesBecomeNumbers ==
    (pc = "done" /\ NoFillNoDrop /\ (TypedColumn("currency") \/ TypedColumn("percentage"))) =>
        /\ ~cleaned.raised
        /\ Len(cleaned.df.rows) = Len(table.rows)
        /\ \A i \in 1..Len(table.rows) :
              cleaned.df.rows[i].cells[1] = CleanedValue(table.rows[i].cells[1])

\* a currency column with "$1,200.50", "($500)" and a value that is no
\* number has been cleaned
C12_Witness ==
    /\ pc = "done" /\ NoFillNoDrop /\ TypedColumn("currency")
    /\ Len(table.rows) = 3
    /\ table.rows[1].cells[1] = StrCell(S_price)
    /\ table.rows[2].cells[1] = StrCell(S_loss)
    /\ table.rows[3].cells[1] = StrCell(S_abc)
    /\ cleaned.df.rows[2].cells[1] = IntCell(-500)

\* the columns of the table that hold numbers, with at least one value
NumericColumns ==
    {j \in 1..Len(table.cols) :
        /\ IsNumericDtype(table.cols[j].dtype)
        /\ \E i \in 1..Len(table.rows) : ~IsNull(table.rows[i].cells[j])}

\* the rows of the table with a value in column j
ValuedRows(j) == {i \in 1..Len(table.rows) : ~IsNull(table.rows[i].cells[j])}

\* c is the statistic the strategy names over the values of column j: zero,
\* the mean (c * count = sum), or the median (half of the values on either
\* side of c, and c a value or the middle of two values of the column)
IsStatisticOf(j, c, strategy) ==
    /\ c.k \in {"int", "float"}
    /\ LET at(i) == NumOf(table.rows[i].cells[j])
           count == Cardinality(ValuedRows(j))
           total == Sum([i \in 1..Len(table.rows) |->
                           IF i \in ValuedRows(j) THEN at(i)[1] ELSE 0])
           v == NumOf(c)
       IN  CASE strategy = "zero" -> v[1] = 0
             [] strategy = "mean" -> v[1] * count = total * v[2]
             [] strategy = "median" ->
                   /\ 2 * Cardinality({i \in ValuedRows(j) : NumLE(at(i), v)}) >= count
                   /\ 2 * Cardinality({i \in ValuedRows(j) : NumLE(v, at(i))}) >= count
                   /\ \E a, b \in ValuedRows(j) : 2 * v[1] = (at(a)[1] + at(b)[1]) * v[2]

\* C13: with missing_numeric mean, median or zero, every null of a numeric
\* column is replaced by the statistic over the values of the column, the
\* values are unchanged and no null remains in the column (rows are kept:
\* missing_text is not drop).
C13_NullsFilledWithStatistic ==
    (pc = "done" /\ conf.missing_numeric \in {"mean", "median", "zero"}
                 /\ conf.missing_text # "drop") =>
        /\ ~cleaned.raised
        /\ Len(cleaned.df.rows) = Len(table.rows)
        /\ \A j \in NumericColumns : \A i \in 1..Len(table.rows) :
              IF IsNull(table.rows[i].cells[j])
              THEN IsStatisticOf(j, cleaned.df.rows[i].cells[j], conf.missing_numeric)
              ELSE cleaned.df.rows[i].cells[j] = table.rows[i].cells[j]

\* a strategy of the config is drop
DropChosen == conf.missing_numeric = "drop" \/ conf.missing_text = "drop"

\* the frame after the fills of every column, before the final pass
Filled == CleanFrom(table, Infer(table).info, 1, conf, <<>>).df

\* the rows of a frame without a null cell
RowsWithoutNull(df) ==
    {i \in 1..Len(df.rows) : \A j \in 1..Len(df.cols) : ~IsNull(df.rows[i].cells[j])}

FullRows == RowsWithoutNull(Filled)

\* out is what the final pass has to make of the filled frame
IsFinalPassOf(out, filled) ==
    IF DropChosen
    THEN /\ out.rows = Filter(filled.rows, RowsWithoutNull(filled))
         /\ RowsWithoutNull(out) = 1..Len(out.rows)
    ELSE /\ out.rows = filled.rows
         /\ Len(out.rows) = Len(table.rows)

\* C18: when missing_numeric or missing_text is drop, the cleaned table has
\* no null cell: exactly the rows that still hold a null after the fills of
\* all columns are removed, and the other rows keep their order; when
\* neither is drop, clean removes no row.
C18_DropRemovesExactlyNullRows ==
    pc = "done" =>
        /\ ~cleaned.raised
        /\ IsFinalPassOf(cleaned.df, Filled)

\* of three rows with two columns the one row that kept a null after the
\* fills has been dropped, the rows around it stay in order
C18_Witness ==
    /\ pc = "done" /\ DropChosen
    /\ Len(table.cols) = 2 /\ Len(table.rows) = 3
    /\ FullRows = {1, 3}
    /\ IsNull(Filled.rows[2].cells[1]) /\ ~IsNull(Filled.rows[2].cells[2])
    /\ cleaned.df.rows = <<Filled.rows[1], Filled.rows[3]>>
    /\ Filled.rows[1] # Filled.rows[3]

\* the action a cleaning of a column of the type is logged under
CleaningAction(col_type) ==
    CASE col_type = "currency" -> "clean_currency"
      [] col_type = "percentage" -> "clean_percentage"
      [] OTHER -> "parse_date"

\* the entries of the log that name the column
EntriesOfColumn(logs, key) ==
    Filter(logs, {i \in 1..Len(logs) : logs[i].column = StrLabel(key)})

\* the entries of the log of the drop pass
DropEntries(logs) ==
    Filter(logs, {i \in 1..Len(logs) : logs[i].action = "drop_na_rows"})

\* the nulls that the coercion of the column by its type adds
NullsAdded(df, key, col_type) ==
    NaCount(SeriesAt(Coerce(df, ColIndex(df, StrLabel(key)), col_type),
                     ColIndex(df, StrLabel(key))))
        - NaCount(SeriesAt(df, ColIndex(df, StrLabel(key))))

\* one entry of the cleaner for the action on the column, with the change
\* of the null count of the column as its rows_affected
OneCleaningEntry(es, df, key, col_type) ==
    /\ Len(es) = 1
    /\ es[1].step = "cleaner" /\ es[1].action = CleaningAction(col_type)
    /\ es[1].rows_affected >= 0
    /\ es[1].rows_affected = NullsAdded(df, key, col_type)

\* C26: every currency, percentage and date cleaning of a column appends
\* exactly one entry of step cleaner with its action and the column, whose
\* rows_affected is the change of the null count of the column, a number
\* that is not negative; a drop pass appends exactly one entry whose
\* rows_affected is the number of rows removed.
C26_CleanerEntriesCountNulls ==
    (pc = "done" /\ ~cleaned.raised) =>
        /\ \A i \in 1..Len(Infer(table).info) :
              Infer(table).info[i].val.column_type \in {"currency", "percentage", "date"} =>
                  OneCleaningEntry(EntriesOfColumn(cleaned.logs, Infer(table).info[i].key),
                                   table, Infer(table).info[i].key,
                                   Infer(table).info[i].val.column_type)
        /\ (conf.missing_numeric = "drop" \/ conf.missing_text = "drop") =>
              /\ Len(DropEntries(cleaned.logs)) = 1
              /\ DropEntries(cleaned.logs)[1].step = "cleaner"
              /\ DropEntries(cleaned.logs)[1].rows_affected
                     = NRows(table) - NRows(cleaned.df)


----------------------------------------------------------------------------
(* Specification of profile_dataframe                                      *)

\* Python values of a profile: a dict is a sequence of [key, val] with
\* labels as keys, a list a sequence of values, the rest are scalars
Dict(items) == [k |-> "dict", v |-> items]
List(items) == [k |-> "list", v |-> items]
DtypeStr(dtype) == [k |-> "dtype", v |-> dtype]
KV(key, val) == [key |-> key, val |-> val]
Field(name, val) == [key |-> StrLabel(name), val |-> val]

\* the numbers a/b - c/d and a/b * c/d
NumSub(a, b) == <<a[1] * b[2] - b[1] * a[2], a[2] * b[2]>>
NumMul(a, b) == <<a[1] * b[1], a[2] * b[2]>>

\* _basic_stats(df)
BasicStats(df) ==
    Dict(<< Field(<<"r", "o", "w", "s">>, IntCell(NRows(df))),
            Field(<<"c", "o", "l", "u", "m", "n", "s">>, IntCell(Len(df.cols))),
            Field(<<"d", "a", "t", "a", "_", "t", "y", "p", "e", "s">>,
                  Dict([j \in 1..Len(df.cols) |->
                          KV(df.cols[j].name, DtypeStr(df.cols[j].dtype))])),
            Field(<<"m", "i", "s", "s", "i", "n", "g", "_", "v", "a", "l", "u", "e", "s">>,
                  Dict([j \in 1..Len(df.cols) |->
                          KV(df.cols[j].name, IntCell(NaCount(SeriesAt(df, j))))])) >>)

\* df.select_dtypes(include=[np.number]): the positions of the columns kept
NumberColumns(df) ==
    Filter([j \in 1..Len(df.cols) |-> j],
           {j \in 1..Len(df.cols) : IsNumericDtype(df.cols[j].dtype)})

\* the sum over the rows where the columns a and b both have a value of
\* the product of what f and g give for the row
PairSum(df, a, b, f, g) ==
    LET T[i \in 0..Len(df.rows)] ==
            IF i = 0 THEN <<0, 1>>
            ELSE IF IsNull(df.rows[i].cells[a]) \/ IsNull(df.rows[i].cells[b]) THEN T[i - 1]
            ELSE LET x == IF f = 0 THEN <<1, 1>> ELSE NumOf(df.rows[i].cells[f])
                     y == IF g = 0 THEN <<1, 1>> ELSE NumOf(df.rows[i].cells[g])
                     t == NumAdd(T[i - 1], NumMul(<<df.rows[i].n, 1>>, NumMul(x, y)))
                     d == GCD(Abs(t[1]), t[2])
                 IN  <<t[1] \div d, t[2] \div d>>
    IN  T[Len(df.rows)]

\* one value of num_df.corr().fillna(0): Pearson's r over the rows where
\* both columns have a value, as <<sign, num, den>> with r * r = num / den;
\* NaN (no variance) becomes 0
Pearson(df, a, b) ==
    LET n == PairSum(df, a, b, 0, 0)
        cov == NumSub(NumMul(n, PairSum(df, a, b, a, b)),
                      NumMul(PairSum(df, a, b, a, 0), PairSum(df, a, b, b, 0)))
        va == NumSub(NumMul(n, PairSum(df, a, b, a, a)),
                     NumMul(PairSum(df, a, b, a, 0), PairSum(df, a, b, a, 0)))
        vb == NumSub(NumMul(n, PairSum(df, a, b, b, b)),
                     NumMul(PairSum(df, a, b, b, 0), PairSum(df, a, b, b, 0)))
        sq == NumMul(cov, cov)
        vv == NumMul(va, vb)
        num == sq[1] * vv[2]
        den == sq[2] * vv[1]
    IN  [k |-> "corr",
         v |-> IF va[1] = 0 \/ vb[1] = 0 \/ cov[1] = 0 THEN <<0, 0, 1>>
               ELSE << IF cov[1] > 0 THEN 1 ELSE -1,
                       num \div GCD(num, den), den \div GCD(num, den) >>]

\* _correlations(df): empty with fewer than two numeric columns
Correlations(df) ==
    LET num == NumberColumns(df)
    IN  IF Len(num) < 2 THEN Dict(<<>>)
        ELSE Dict([a \in 1..Len(num) |->
                KV(StrLabel(LabelStr(df.cols[num[a]].name)),
                   Dict([b \in 1..Len(num) |->
                           KV(StrLabel(LabelStr(df.cols[num[b]].name)),
                              Pearson(df, num[a], num[b]))]))])

\* series.quantile(p / 4) of the values of a series, by linear interpolation
Quantile(series, p) ==
    LET count == SLen(series) - NaCount(series)
        lo == (p * (count - 1)) \div 4
        r == (p * (count - 1)) % 4
        x == KthSmallest(series, lo + 1)
        y == IF r = 0 THEN x ELSE KthSmallest(series, lo + 2)
        t == NumAdd(<<x[1] * (4 - r), x[2]>>, <<y[1] * r, y[2]>>)
    IN  Num(t[1], 4 * t[2])

\* the runs of a series that are the first with their value
Firsts(series) ==
    {i \in Present(series) : \A x \in 1..(i - 1) : series[x].v # series[i].v}

\* how often the value of run i occurs in the series
CountOf(series, i) ==
    Sum([x \in 1..Len(series) |-> IF series[x].v = series[i].v THEN series[x].n ELSE 0])

\* Counter(series.dropna()).most_common(3): the most frequent values with
\* their counts, values of the same count in the order of first occurrence
MostCommon(series) ==
    LET ahead(i) == {f \in Firsts(series) :
                        \/ CountOf(series, f) > CountOf(series, i)
                        \/ CountOf(series, f) = CountOf(series, i) /\ f < i}
        at(r) == CHOOSE i \in Firsts(series) : Cardinality(ahead(i)) = r - 1
    IN  [r \in 1..Min(3, Cardinality(Firsts(series))) |->
            List(<<series[at(r)].v, IntCell(CountOf(series, at(r)))>>)]

\* one entry of _value_distributions(df)
Distribution(df, j) ==
    LET series == SeriesAt(df, j)
    IN  IF IsNumericDtype(df.cols[j].dtype)
        THEN IF Present(series) # {}
             THEN Dict(<< Field(<<"m", "i", "n">>, Quantile(series, 0)),
                          Field(<<"q", "1">>, Quantile(series, 1)),
                          Field(<<"m", "e", "d", "i", "a", "n">>, Median(series)),
                          Field(<<"q", "3">>, Quantile(series, 3)),
                          Field(<<"m", "a", "x">>, Quantile(series, 4)) >>)
             ELSE Dict(<< Field(<<"n", "o", "t", "e">>,
                                StrCell(<<"A", "l", "l", " ", "v", "a", "l", "u", "e", "s", " ",
                                          "a", "r", "e", " ", "n", "u", "l", "l">>)) >>)
        ELSE Dict(<< Field(<<"t", "o", "p", "_", "v", "a", "l", "u", "e", "s">>,
                           List(MostCommon(series))) >>)

\* columns_info: one dict per column
ColumnsInfo(df) ==
    List([j \in 1..Len(df.cols) |->
        Dict(<< Field(<<"n", "a", "m", "e">>, df.cols[j].name),
                Field(<<"d", "t", "y", "p", "e">>, DtypeStr(df.cols[j].dtype)),
                Field(<<"n", "u", "l", "l", "_", "c", "o", "u", "n", "t">>,
                      IntCell(NaCount(SeriesAt(df, j)))),
                Field(<<"u", "n", "i", "q", "u", "e", "_", "c", "o", "u", "n", "t">>,
                      IntCell(Cardinality(Firsts(SeriesAt(df, j))))),
                Field(<<"d", "i", "s", "t", "r", "i", "b", "u", "t", "i", "o", "n">>,
                      Distribution(df, j)) >>)])

\* df.head(3).to_dict("records") with the given keys for the columns
HeadRecords(df, keys) ==
    LET head == SliceRows(df.rows, 0, 3)
    IN  List(Flatten([i \in 1..Len(head) |->
            [x \in 1..head[i].n |->
                Dict([j \in 1..Len(df.cols) |-> KV(keys[j], head[i].cells[j])])]]))

\* the sample of the builtin profile: str(k) as keys
SampleData(df) ==
    HeadRecords(df, [j \in 1..Len(df.cols) |-> StrLabel(LabelStr(df.cols[j].name))])

\* ProfileJSON(basic_stats, periods, metrics, columns, sample_data)
ProfileJSON(basic_stats, columns, sample_data) ==
    Dict(<< Field(<<"b", "a", "s", "i", "c", "_", "s", "t", "a", "t", "s">>, basic_stats),
            Field(<<"p", "e", "r", "i", "o", "d", "s">>, List(<<>>)),
            Field(<<"m", "e", "t", "r", "i", "c", "s">>, List(<<>>)),
            Field(<<"c", "o", "l", "u", "m", "n", "s">>, columns),
            Field(<<"s", "a", "m", "p", "l", "e", "_", "d", "a", "t", "a">>, sample_data) >>)

\* the builtin profile: corr = _correlations(df) is computed and the
\* ProfileJSON is built from basic, columns_info and the sample
BuiltinProfile(df) ==
    LET basic == BasicStats(df)
        corr == Correlations(df)
    IN  ProfileJSON(basic, ColumnsInfo(df), SampleData(df))

\* the entry the profiler logs
ProfilerLog(action, rows_affected) == LogArgs("profiler", action, NoColumn, rows_affected)

\* ProfilerMode
ProfilerModes == {"builtin", "ydata", "capitalone", "none"}

\* what the external engine does when profile_dataframe reaches it: the
\* import fails, ProfileReport(...) raises, pr.to_json() raises, or both
\* return
EngineOutcomes == {"not_installed", "report_raises", "to_json_raises", "succeeds"}

NoProfile == Dict(<<>>)

\* an exception leaves profile_dataframe
ProfileRaised(logs) == [raised |-> TRUE, profile |-> NoProfile, logs |-> logs]

Profiled(profile, logs) == [raised |-> FALSE, profile |-> profile, logs |-> logs]

\* the last part of profile_dataframe: "builtin or fallback"
BuiltinOrFallback(df, logs) ==
    Profiled(BuiltinProfile(df), Append(logs, ProfilerLog("builtin_profile", NRows(df))))

\* the branch of mode "ydata": only ImportError is caught
YdataProfile(df, outcome) ==
    CASE outcome = "not_installed" ->
            BuiltinOrFallback(df, <<ProfilerLog("ydata_not_installed", 0)>>)
      [] outcome = "report_raises" -> ProfileRaised(<<>>)
      [] outcome = "to_json_raises" ->
            ProfileRaised(<<ProfilerLog("ydata_profile", NRows(df))>>)
      [] outcome = "succeeds" ->
            Profiled(ProfileJSON(BasicStats(df), List(<<>>), HeadRecords(df, Columns(df))),
                     <<ProfilerLog("ydata_profile", NRows(df))>>)

\* profile_dataframe(df, cfg, audit): the profile and the entries logged,
\* or the exception; mode "capitalone" has no branch of its own
ProfileDataframe(df, cfg, outcome) ==
    CASE cfg.profiler.mode = "none" ->
            Profiled(ProfileJSON(Dict(<<>>), List(<<>>), List(<<>>)),
                     <<ProfilerLog("skip", 0)>>)
      [] cfg.profiler.mode = "ydata" -> YdataProfile(df, outcome)
      [] OTHER -> BuiltinOrFallback(df, <<>>)

MaxProfileRows == 3

ProfileHeaders ==
    { <<HC(L_Amount, AmountDom), HC(L_Price, {IntCell(5), IntCell(7)})>>,
      <<HC(L_Item, {StrCell(S_abc), StrCell(S_xyz)}), HC(L_Amount, {IntCell(10), IntCell(30)})>>,
      <<HC(L_Item, {StrCell(S_abc)})>> }

\* cleaned tables: two numeric columns, one numeric column, none
ProfileTables(n) ==
    UNION { {Frame(h, rows, b) : rows \in SeqsUpTo(RowsOf(h), n), b \in Backends}
            : h \in ProfileHeaders }

InitProfile ==
    /\ pc = "start"
    /\ table \in ProfileTables(MaxProfileRows)
    /\ info = NoInfo /\ layoutInfo = NoLayout /\ longDf = NoLong
    /\ IdleAudit /\ IdleService
    /\ conf \in {[PipelineConfig EXCEPT !.profiler.mode = m] : m \in ProfilerModes}
    /\ cleaned = [raised |-> FALSE, df |-> EmptyFrame, logs |-> <<>>]
    /\ profiled = [raised |-> FALSE, logs |-> <<>>]
    /\ engine \in EngineOutcomes
    /\ reruns = <<>>

\* profile = profile_dataframe(df_clean, self.config, audit)
ProfileStep ==
    /\ pc = "start"
    /\ profiled' = ProfileDataframe(table, conf, engine)
    /\ pc' = "done"
    /\ UNCHANGED <<fnVars, auditVars, svcVars, conf, cleaned, engine, reruns>>

NextProfile == ProfileStep

SpecProfile == InitProfile /\ [][NextProfile]_vars

RECURSIVE Nodes(_)
\* a value of a profile and every value inside it
Nodes(node) ==
    CASE node.k = "dict" -> <<node>> \o Flatten([i \in 1..Len(node.v) |-> Nodes(node.v[i].val)])
      [] node.k = "list" -> <<node>> \o Flatten([i \in 1..Len(node.v) |-> Nodes(node.v[i])])
      [] OTHER -> <<node>>

\* the key of an entry is str(label of column j)
KeyIsColumn(key, df, j) == key.k = "str" /\ key.v = LabelStr(df.cols[j].name)

\* the value is the Pearson correlation matrix over the numeric columns of
\* df: a dict from each numeric column to a dict from each numeric column
\* to the correlation of the two
IsCorrelationMatrix(node, df) ==
    LET num == NumberColumns(df)
    IN  /\ node.k = "dict"
        /\ Len(node.v) = Len(num)
        /\ \A a \in 1..Len(num) :
              /\ KeyIsColumn(node.v[a].key, df, num[a])
              /\ node.v[a].val.k = "dict"
              /\ Len(node.v[a].val.v) = Len(num)
              /\ \A b \in 1..Len(num) :
                    /\ KeyIsColumn(node.v[a].val.v[b].key, df, num[b])
                    /\ node.v[a].val.v[b].val.k = "corr"
                    /\ node.v[a].val.v[b].val.v = Pearson(df, num[a], num[b]).v

\* C14: the builtin profile holds the Pearson correlation matrix over the
\* numeric columns of the table when there are at least two of them; with
\* fewer than two the matrix is omitted.
C14_ProfileHoldsCorrelations ==
    (pc = "done" /\ conf.profiler.mode = "builtin") =>
        /\ ~profiled.raised
        /\ LET nodes == Nodes(profiled.profile)
           IN  IF Len(NumberColumns(table)) >= 2
               THEN \E x \in 1..Len(nodes) : IsCorrelationMatrix(nodes[x], table)
               ELSE \A x \in 1..Len(nodes) :
                       nodes[x].k = "dict" =>
                          \A e \in 1..Len(nodes[x].v) : nodes[x].v[e].val.k # "corr"

\* the entries of the log that record a failure of the engine: neither the
\* start of a profile nor the skip
FailureEntries(logs) ==
    {x \in 1..Len(logs) : logs[x].action \notin {"builtin_profile", "ydata_profile", "skip"}}

\* C15: for every mode and every outcome of the external engine,
\* profile_dataframe returns a profile and does not raise; when the engine
\* of an external mode is not installed or raises, an entry of the log
\* records the failure and the builtin profile is returned; mode none
\* returns an empty profile and logs one entry.
C15_ProfilingNeverFails ==
    pc = "done" =>
        /\ ~profiled.raised
        /\ (conf.profiler.mode \in {"ydata", "capitalone"} /\ engine # "succeeds") =>
              /\ FailureEntries(profiled.logs) # {}
              /\ profiled.profile = BuiltinProfile(table)
        /\ conf.profiler.mode = "none" =>
              /\ profiled.profile = ProfileJSON(Dict(<<>>), List(<<>>), List(<<>>))
              /\ Len(profiled.logs) = 1

----------------------------------------------------------------------------
(* What an upload reports                                                  *)

\* _extract_processing_info(results): data_shape and columns come from the
\* first result, the number of its LongRows and the columns of its profile
ExtractProcessingInfo(results) ==
    LET primary_result == results[1]
    IN  [data_shape |-> << Sum([i \in 1..Len(primary_result.clean_data) |->
                                  primary_result.clean_data[i].n]),
                           Len(primary_result.profile.columns) >>,
         columns |-> [j \in 1..Len(primary_result.profile.columns) |->
                         primary_result.profile.columns[j].name]]

\* C19: a successful upload of a CSV file with header H and n rows reports
\* columns = H in file order and data_shape = [n, |H|], on the pipeline path
\* and on the chunked recovery path.
C19_UploadReportsShapeOfFile ==
    (pc = "done" /\ file.kind = "csv" /\ svc.outcome = "ok") =>
        /\ ExtractProcessingInfo(svc.results).columns = file.sheets[1].header
        /\ ExtractProcessingInfo(svc.results).data_shape
              = << Sum([i \in 1..Len(file.sheets[1].rows) |-> file.sheets[1].rows[i].n]),
                   Len(file.sheets[1].header) >>

----------------------------------------------------------------------------
(* Specification of a session: create_session, store_pipeline_results and  *)
(* set_current_sheet called in any order on one session id                 *)

\* the PipelineResult of a sheet of that name holding the table
SheetResult(name, t) ==
    ResultOf(DataSheet(name, ReadSheet(Named(t, name), "pyarrow"), TempPath, name),
             ProcessSheet(ReadSheet(Named(t, name), "pyarrow"), PipelineConfig))

\* the result lists a caller stores: of no result (the default of the
\* orchestrator when the processor answers without results) up to n results
ResultLists(n) ==
    SeqsUpTo({SheetResult(SheetName(i), t) : i \in 1..n, t \in {T_Text, T_Earlier}}, n)

InitSession ==
    /\ pc = "session"
    /\ table = EmptyFrame /\ info = NoInfo /\ layoutInfo = NoLayout /\ longDf = NoLong
    /\ IdleAudit /\ IdleService /\ IdleSteps

CreateSessionCall ==
    /\ session' = CreateSession
    /\ reply' = [NoReply EXCEPT !.call = "create", !.success = TRUE]
    /\ UNCHANGED <<pc, fnVars, auditVars, file, run, svc, stepVars>>

StorePipelineResultsCall ==
    /\ \E results \in ResultLists(MaxSheets) :
          /\ session' = StorePipelineResults(session, results).session
          /\ reply' = [NoReply EXCEPT !.call = "store",
                                      !.success = StorePipelineResults(session, results).ret]
    /\ UNCHANGED <<pc, fnVars, auditVars, file, run, svc, stepVars>>

\* the names asked for: those of the sheets and one that no result carries
SetCurrentSheetCall ==
    /\ \E i \in 1..(MaxSheets + 1) :
          /\ session' = SetCurrentSheet(session, SheetName(i)).session
          /\ reply' = [NoReply EXCEPT !.call = "set", !.arg = SheetName(i),
                                      !.success = SetCurrentSheet(session, SheetName(i)).ret]
    /\ UNCHANGED <<pc, fnVars, auditVars, file, run, svc, stepVars>>

NextSession == CreateSessionCall \/ StorePipelineResultsCall \/ SetCurrentSheetCall

SpecSession == InitSession /\ [][NextSession]_vars

----------------------------------------------------------------------------
(* Properties of the session specification                                 *)

\* current_sheet is None or the sheet of a stored result
CurrentSheetIsStored(s) ==
    \/ s.current_sheet = NoSheet
    \/ \E i \in 1..Len(s.pipeline_results) :
          StrLabel(s.pipeline_results[i].sheet) = s.current_sheet

\* C30: after every call of create_session, store_pipeline_results and
\* set_current_sheet the current_sheet of the session is None or the sheet
\* name of one of its stored pipeline_results; set_current_sheet returns
\* true exactly for the name of a stored result, and when it returns false
\* data, metadata and current_sheet are what they were.
C30_CurrentSheetIsStored ==
    [][/\ CurrentSheetIsStored(session')
       /\ reply'.call = "set" =>
             /\ reply'.success <=> Stored(session, reply'.arg) # {}
             /\ ~reply'.success => session' = session]_vars

====
